---- MODULE Spec2Model ----
(***************************************************************************)
(* Call-signaling core of the Acoustic Projection Microphone System:       *)
(*   - the session store (backend/storage.py) driven by the REST handlers  *)
(*     and the housekeeper of backend/app.py;                              *)
(*   - the signaling hubs (backend/signaling/ws_signaling.py and           *)
(*     signaling.py).                                                      *)
(***************************************************************************)
EXTENDS Integers, Sequences, FiniteSets, TLC

VARIABLES
    sessions,   \* storage.py sessions table: id -> row
    nCreated,   \* number of session ids handed out so far (uuid4 is fresh)
    wall,       \* time.time()
    ticks,      \* number of clock advances so far
    req,        \* request threads of the REST handlers (threadpool)
    hk,         \* the session_housekeeper task
    sweep,      \* last direct call of a store operation: arguments, table before, result
    impl,       \* which hub serves: "hub" (ws_signaling.py) or "legacy" (signaling.py)
    roomKeys,   \* keys of the rooms dict, in insertion order
    rooms,      \* room_id -> set of connections
    peers,      \* ws_signaling.py: websocket -> peer_id
    who,        \* signaling.py: ws -> (room_id, peer_id)
    last_seen,  \* ws_signaling.py: websocket -> last seen time
    task,       \* per connection: the coroutine serving it (position and locals)
    running,    \* the coroutine that holds the event loop (NoConn: all at an await)
    link,       \* per connection: state of its transport
    mono,       \* time.monotonic()
    joinedRooms, \* history: the rooms each connection has joined
    joinedAs,   \* history: the peer id each connection gave at its latest join
    lastSend,   \* the send_text this step made, if any
    received,   \* number of frames received so far, over all connections
    EXPECTED_TOKEN, \* ws_signaling.py: the shared secret of the environment, if any
    heartbeat,  \* ws_signaling.py: the _heartbeat_loop task (position and locals)
    closed,     \* per connection: the close frame the server sent it, if any
    stop_event, \* app.py: app.state.stop_event (asyncio.Event)
    shutdown,   \* app.py: position of the shutdown handler
    peer_rows,  \* storage.py: table peers, id -> status
    metadata,   \* storage.py: table metadata, key -> value
    discovered, \* apm_peer_service.py: PeerDiscoveryService.peers, id -> Peer
    cleanup     \* apm_peer_service.py: the _cleanup_stale_peers task (position, wake time)

hubVars == <<impl, roomKeys, rooms, peers, who, last_seen, task, running, link, mono,
             joinedRooms, joinedAs, lastSend, received, EXPECTED_TOKEN, heartbeat, closed>>
beatVars == <<EXPECTED_TOKEN, heartbeat, closed>>
storeVars == <<sessions, nCreated, wall, ticks, req, hk, sweep>>
appVars == <<stop_event, shutdown, peer_rows, metadata, discovered, cleanup>>
vars == <<storeVars, hubVars, appVars>>

None == "None"

-----------------------------------------------------------------------------
(* Bounds *)

MaxSessions == 1
NumThreads == 1
MaxTicks == 2
MaxRows == 2
MaxT == 2

(* Program constants *)

SESSION_TIMEOUT_SECONDS == 30
SESSION_PURGE_AFTER_SECONDS == 600
HEARTBEAT_INTERVAL_SEC == 10
STALE_TIMEOUT_SEC == 30
GOING_AWAY == 1001
POLICY_VIOLATION == 1008

SessionIds == 1..MaxSessions
Threads == 1..NumThreads
KnownPeers == {"peer-a"}
PeerArgs == KnownPeers \cup {"peer-x"}
Statuses == {"calling", "ringing", "connected", "ended", "timeout"}
Deltas == {SESSION_TIMEOUT_SECONDS, SESSION_PURGE_AFTER_SECONDS}

-----------------------------------------------------------------------------
(* storage.py *)

get_peer_any(peer_id) == peer_id

\* SELECT * FROM peers WHERE id = ?
get_peer(peer_id) == IF peer_id \in KnownPeers THEN peer_id ELSE None

\* the row a lookup that finds nothing returns (Python None)
NoRow == [peer_id |-> None, status |-> None, created_at |-> 0, updated_at |-> 0]

\* a lookup that finds a row for every id
get_session_any(tbl, sid) ==
    IF sid \in DOMAIN tbl THEN tbl[sid] ELSE [NoRow EXCEPT !.status = "calling"]

\* SELECT * FROM sessions WHERE id = ?
get_session(tbl, sid) == IF sid \in DOMAIN tbl THEN tbl[sid] ELSE NoRow

NewRow(peer_id, now) ==
    [peer_id |-> peer_id, status |-> "calling", created_at |-> now, updated_at |-> now]

InsertRowAlone(tbl, sid, row) == [s \in {sid} |-> row]

InsertRow(tbl, sid, row) ==
    [s \in DOMAIN tbl \cup {sid} |-> IF s = sid THEN row ELSE tbl[s]]

\* UPDATE sessions SET status = ?, updated_at = ? WHERE id = ?
update_session_status(tbl, sid, status, updated_at) ==
    IF sid \in DOMAIN tbl
    THEN [tbl EXCEPT ![sid].status = status, ![sid].updated_at = updated_at]
    ELSE tbl

StaleRowsAnyStatus(tbl, timeout_seconds, now) ==
    {s \in DOMAIN tbl : tbl[s].updated_at <= now - timeout_seconds}

\* a sweep that takes a session only at the instant its age equals the timeout
StaleRowsOnTheDot(tbl, timeout_seconds, now) ==
    {s \in DOMAIN tbl : /\ tbl[s].status \in {"calling", "ringing"}
                        /\ tbl[s].updated_at = now - timeout_seconds}

StaleRowsStrict(tbl, timeout_seconds, now) ==
    {s \in DOMAIN tbl : /\ tbl[s].status \in {"calling", "ringing"}
                        /\ tbl[s].updated_at < now - timeout_seconds}

\* WHERE status IN ('calling', 'ringing') AND updated_at <= threshold
StaleRows(tbl, timeout_seconds, now) ==
    {s \in DOMAIN tbl : /\ tbl[s].status \in {"calling", "ringing"}
                        /\ tbl[s].updated_at <= now - timeout_seconds}

mark_stale_sessions(tbl, timeout_seconds, now) ==
    [s \in DOMAIN tbl |->
        IF s \in StaleRows(tbl, timeout_seconds, now)
        THEN [tbl[s] EXCEPT !.status = "timeout", !.updated_at = now]
        ELSE tbl[s]]

mark_stale_rowcount(tbl, timeout_seconds, now) ==
    Cardinality(StaleRows(tbl, timeout_seconds, now))

PurgeRowsStrict(tbl, older_than_seconds, now) ==
    {s \in DOMAIN tbl : /\ tbl[s].status \in {"ended", "timeout"}
                        /\ tbl[s].updated_at < now - older_than_seconds}

PurgeRowsAnyStatus(tbl, older_than_seconds, now) ==
    {s \in DOMAIN tbl : tbl[s].updated_at <= now - older_than_seconds}

\* WHERE status IN ('ended', 'timeout') AND updated_at <= threshold
PurgeRows(tbl, older_than_seconds, now) ==
    {s \in DOMAIN tbl : /\ tbl[s].status \in {"ended", "timeout"}
                        /\ tbl[s].updated_at <= now - older_than_seconds}

purge_sessions(tbl, older_than_seconds, now) ==
    [s \in DOMAIN tbl \ PurgeRows(tbl, older_than_seconds, now) |-> tbl[s]]

purge_rowcount(tbl, older_than_seconds, now) ==
    Cardinality(PurgeRows(tbl, older_than_seconds, now))

-----------------------------------------------------------------------------
(* app.py: REST handlers, each run on a threadpool thread *)

IdleReq == [pc |-> "idle", op |-> None, sid |-> 0, peer |-> None, now |-> 0]

\* a request is run by the lowest idle worker of the pool
Free(t) == /\ req[t].pc = "idle"
           /\ \A u \in Threads : u < t => req[u].pc # "idle"

\* POST /api/session for an unknown peer: 404
create_session_404(t, peer_id) ==
    /\ Free(t)
    /\ get_peer(peer_id) = None
    /\ req' = [req EXCEPT ![t] = IdleReq]
    /\ UNCHANGED <<sessions, nCreated, wall, ticks, hk, sweep, hubVars, appVars>>

\* POST /api/session: peer found, storage.create_session reads the clock and
\* draws a fresh id before it takes the lock
create_session_begin(t, peer_id) ==
    /\ Free(t)
    /\ get_peer(peer_id) # None
    /\ nCreated < MaxSessions
    /\ nCreated' = nCreated + 1
    /\ req' = [req EXCEPT ![t] = [IdleReq EXCEPT !.pc = "insert", !.op = "create",
                                                  !.peer = peer_id, !.sid = nCreated + 1,
                                                  !.now = wall]]
    /\ UNCHANGED <<sessions, wall, ticks, hk, sweep, hubVars, appVars>>

\* storage.create_session: INSERT under the lock, return the session
create_session_insert(t) ==
    /\ req[t].pc = "insert"
    /\ sessions' = InsertRow(sessions, req[t].sid, NewRow(req[t].peer, req[t].now))
    /\ req' = [req EXCEPT ![t] = IdleReq]
    /\ UNCHANGED <<nCreated, wall, ticks, hk, sweep, hubVars, appVars>>

NewStatus(op) == IF op = "accept" THEN "connected" ELSE "ended"

\* accept_session / end_session: storage.get_session, 404 when absent
transition_get(t, op, sid) ==
    /\ Free(t)
    /\ op \in {"accept", "end"}
    /\ IF get_session(sessions, sid) = NoRow
       THEN req' = [req EXCEPT ![t] = IdleReq]
       ELSE req' = [req EXCEPT ![t] = [IdleReq EXCEPT !.pc = "now", !.op = op,
                                                       !.sid = sid]]
    /\ UNCHANGED <<sessions, nCreated, wall, ticks, hk, sweep, hubVars, appVars>>

\* now = time.time(), read before the store lock is taken
transition_now(t) ==
    /\ req[t].pc = "now"
    /\ req' = [req EXCEPT ![t].pc = "update", ![t].now = wall]
    /\ UNCHANGED <<sessions, nCreated, wall, ticks, hk, sweep, hubVars, appVars>>

\* storage.update_session_status under the lock, then the response
transition_update(t) ==
    /\ req[t].pc = "update"
    /\ sessions' = update_session_status(sessions, req[t].sid, NewStatus(req[t].op),
                                         req[t].now)
    /\ req' = [req EXCEPT ![t] = IdleReq]
    /\ UNCHANGED <<nCreated, wall, ticks, hk, sweep, hubVars, appVars>>

-----------------------------------------------------------------------------
(* app.py: session_housekeeper *)

IdleHk == [pc |-> "sleep", now |-> 0]

\* an event that reads as never set
never_set(event) == FALSE

\* asyncio.Event.is_set
is_set(event) == event

\* now = time.time()
housekeeper_now ==
    /\ hk.pc = "sleep"
    /\ ~is_set(stop_event)
    /\ hk' = [hk EXCEPT !.pc = "mark", !.now = wall]
    /\ UNCHANGED <<sessions, nCreated, wall, ticks, req, sweep, hubVars, appVars>>

\* storage.mark_stale_sessions(SESSION_TIMEOUT_SECONDS, now=now)
housekeeper_mark ==
    /\ hk.pc = "mark"
    /\ sessions' = mark_stale_sessions(sessions, SESSION_TIMEOUT_SECONDS, hk.now)
    /\ hk' = [hk EXCEPT !.pc = "purge"]
    /\ UNCHANGED <<nCreated, wall, ticks, req, sweep, hubVars, appVars>>

\* storage.purge_sessions(SESSION_PURGE_AFTER_SECONDS, now=now), then the wait
housekeeper_purge ==
    /\ hk.pc = "purge"
    /\ sessions' = purge_sessions(sessions, SESSION_PURGE_AFTER_SECONDS, hk.now)
    /\ hk' = IdleHk
    /\ UNCHANGED <<nCreated, wall, ticks, req, sweep, hubVars, appVars>>

\* while not stop_event.is_set(): the event is set, the coroutine returns
housekeeper_stop ==
    /\ hk.pc = "sleep"
    /\ is_set(stop_event)
    /\ hk' = [hk EXCEPT !.pc = "done"]
    /\ UNCHANGED <<sessions, nCreated, wall, ticks, req, sweep, hubVars, appVars>>

\* storage.mark_stale_sessions raises (the call is not inside the try): the
\* exception leaves the coroutine and ends the task
housekeeper_mark_raise ==
    /\ hk.pc = "mark"
    /\ hk' = [hk EXCEPT !.pc = "crashed"]
    /\ UNCHANGED <<sessions, nCreated, wall, ticks, req, sweep, hubVars, appVars>>

\* storage.purge_sessions raises: likewise
housekeeper_purge_raise ==
    /\ hk.pc = "purge"
    /\ hk' = [hk EXCEPT !.pc = "crashed"]
    /\ UNCHANGED <<sessions, nCreated, wall, ticks, req, sweep, hubVars, appVars>>

\* shutdown: stop_event.set(), then await housekeeper_task. The handler runs
\* on the event loop, so the housekeeper is at its wait or has ended
shutdown_set ==
    /\ shutdown = "idle"
    /\ hk.pc \in {"sleep", "done", "crashed"}
    /\ stop_event' = TRUE
    /\ shutdown' = "await"
    /\ UNCHANGED <<storeVars, hubVars, peer_rows, metadata, discovered, cleanup>>

\* await app.state.housekeeper_task: the task has returned
shutdown_join ==
    /\ shutdown = "await"
    /\ hk.pc = "done"
    /\ shutdown' = "done"
    /\ UNCHANGED <<storeVars, hubVars, stop_event, peer_rows, metadata, discovered, cleanup>>

\* await app.state.housekeeper_task: the task has ended by an exception,
\* which the await raises in the handler
shutdown_join_raise ==
    /\ shutdown = "await"
    /\ hk.pc = "crashed"
    /\ shutdown' = "raised"
    /\ UNCHANGED <<storeVars, hubVars, stop_event, peer_rows, metadata, discovered, cleanup>>

\* time passes
Tick(d) ==
    /\ ticks < MaxTicks
    /\ ticks' = ticks + 1
    /\ wall' = wall + d
    /\ UNCHANGED <<sessions, nCreated, req, hk, sweep, hubVars, appVars>>

NoSweep == [op |-> None, timeout |-> 0, now |-> 0, pre |-> <<>>, ret |-> 0, rep |-> -1]

\* what the call before this one returned, when it was the same call with the
\* same arguments; -1 otherwise
RepeatOf(op, seconds, now) ==
    IF sweep.op = op /\ sweep.timeout = seconds /\ sweep.now = now THEN sweep.ret ELSE -1

-----------------------------------------------------------------------------
(* Signaling hubs: connections, frames, coroutines *)

NumConns == 2
MaxFrames == 4
MaxDrops == 1
NumRoomConns == 4

Conns == 1..NumConns
NoConn == 0
RoomIds == {"A", "B"}
PeerIds == {"p1", "p2"}

\* dict helpers
Get(f, k) == IF k \in DOMAIN f THEN f[k] ELSE None
Put(f, k, v) == [x \in DOMAIN f \cup {k} |-> IF x = k THEN v ELSE f[x]]
DropAll(f, K) == <<>>
Drop(f, K) == [x \in DOMAIN f \ K |-> f[x]]

\* a JSON frame
Frame(type, roomId, peerId, fromPeerId) ==
    [type |-> type, roomId |-> roomId, peerId |-> peerId, fromPeerId |-> fromPeerId]

NoFrame == Frame(None, None, None, None)

\* the protocol-level keepalive frames
Ping == Frame("ping", None, None, None)
Pong == Frame("pong", None, None, None)

NoSend == [to |-> NoConn, ok |-> FALSE, frame |-> NoFrame, src |-> NoConn]

\* the close frame of websocket.close(code=..., reason=...)
Close(code, reason) == [code |-> code, reason |-> reason]
NoClose == Close(0, None)

\* the key of the _heartbeat_loop task among the coroutines
HeartbeatTask == -1

\* _heartbeat_loop: not created
NoHeartbeat == [pc |-> None, wake |-> 0, stale |-> <<>>]

\* _heartbeat_loop at await asyncio.sleep(HEARTBEAT_INTERVAL_SEC), entered at `now`
Sleeping(now) == [pc |-> "sleep", wake |-> now + HEARTBEAT_INTERVAL_SEC, stale |-> <<>>]

\* a coroutine at position pc, locals cleared
Task(pc, ws) ==
    [pc |-> pc, ws |-> ws, room |-> None, peer |-> None, given |-> None, frame |-> NoFrame,
     excl |-> NoConn, snap |-> {}, visited |-> {}, dead |-> {}, di |-> 0, dsize |-> 0]

\* the application as startup leaves it, with the peer store left aside
\* _cleanup_stale_peers: not started
NoCleanup == [pc |-> None, wake |-> 0]

AppOff ==
    /\ stop_event = FALSE
    /\ shutdown = "idle"
    /\ peer_rows = <<>>
    /\ metadata = <<>>
    /\ discovered = <<>>
    /\ cleanup = NoCleanup

HubOff ==
    /\ impl = None
    /\ roomKeys = <<>>
    /\ rooms = <<>>
    /\ peers = <<>>
    /\ who = <<>>
    /\ last_seen = <<>>
    /\ task = [c \in Conns |-> Task("new", c)]
    /\ running = NoConn
    /\ link = [c \in Conns |-> "new"]
    /\ mono = 0
    /\ joinedRooms = [c \in Conns |-> {}]
    /\ joinedAs = [c \in Conns |-> None]
    /\ lastSend = NoSend
    /\ received = 0
    /\ EXPECTED_TOKEN = None
    /\ heartbeat = NoHeartbeat
    /\ closed = [c \in Conns |-> NoClose]

StoreOff ==
    /\ sessions = <<>>
    /\ nCreated = 0
    /\ wall = 0
    /\ ticks = 0
    /\ req = [t \in Threads |-> IdleReq]
    /\ hk = IdleHk
    /\ sweep = NoSweep


InitStore ==
    /\ StoreOff
    /\ HubOff
    /\ AppOff

NextStore ==
    \/ \E t \in Threads, p \in PeerArgs : create_session_404(t, p)
    \/ \E t \in Threads, p \in PeerArgs : create_session_begin(t, p)
    \/ \E t \in Threads : create_session_insert(t)
    \/ \E t \in Threads, op \in {"accept", "end"}, sid \in SessionIds :
          transition_get(t, op, sid)
    \/ \E t \in Threads : transition_now(t)
    \/ \E t \in Threads : transition_update(t)
    \/ housekeeper_now
    \/ housekeeper_mark
    \/ housekeeper_purge
    \/ \E d \in Deltas : Tick(d)

SpecStore == InitStore /\ [][NextStore]_vars

\* a request that has begun runs to its response on its threadpool thread
Requests ==
    \E t \in Threads : create_session_insert(t) \/ transition_now(t) \/ transition_update(t)

\* the housekeeper's loop: the wait ends, the sweeps run
Housekeeping == housekeeper_now \/ housekeeper_mark \/ housekeeper_purge

\* the housekeeper keeps ticking, requests complete, and time advances
SpecStoreLive ==
    /\ InitStore
    /\ [][NextStore]_vars
    /\ WF_vars(Housekeeping)
    /\ WF_vars(Requests)
    /\ WF_vars(\E d \in Deltas : Tick(d))

-----------------------------------------------------------------------------
(* The session store with a storage that may fail under the housekeeper, and  *)
(* the shutdown of the application                                           *)

Sweeps == housekeeper_mark \/ housekeeper_purge \/ housekeeper_mark_raise
              \/ housekeeper_purge_raise

NextKeeper ==
    \/ NextStore
    \/ housekeeper_stop
    \/ housekeeper_mark_raise
    \/ housekeeper_purge_raise
    \/ shutdown_set
    \/ shutdown_join
    \/ shutdown_join_raise

SpecKeeper == InitStore /\ [][NextKeeper]_vars

\* the event loop runs a coroutine that can run: a sweep that has read its
\* clock goes on, a housekeeper woken by the event returns, and the shutdown
\* handler resumes when the task it awaits has ended
SpecKeeperLive ==
    /\ InitStore
    /\ [][NextKeeper]_vars
    /\ WF_vars(Sweeps \/ housekeeper_stop)
    /\ WF_vars(shutdown_join \/ shutdown_join_raise)

-----------------------------------------------------------------------------
(* The sweeps of storage.py called directly on an arbitrary table, as        *)
(* test_storage.py does                                                      *)

Times == 0..MaxT

Rows == [peer_id : KnownPeers, status : Statuses, created_at : {0}, updated_at : Times]

Tables == UNION {[D -> Rows] : D \in SUBSET (1..MaxRows)}

InitSweep ==
    /\ sessions \in Tables
    /\ nCreated = MaxRows
    /\ wall = 0
    /\ ticks = 0
    /\ req = [t \in Threads |-> IdleReq]
    /\ hk = IdleHk
    /\ sweep = NoSweep
    /\ HubOff
    /\ AppOff

call_mark_stale_sessions(timeout_seconds, now) ==
    /\ sessions' = mark_stale_sessions(sessions, timeout_seconds, now)
    /\ sweep' = [op |-> "mark_stale", timeout |-> timeout_seconds, now |-> now,
                 pre |-> sessions,
                 ret |-> mark_stale_rowcount(sessions, timeout_seconds, now),
                 rep |-> RepeatOf("mark_stale", timeout_seconds, now)]
    /\ UNCHANGED <<nCreated, wall, ticks, req, hk, hubVars, appVars>>

call_purge_sessions(older_than_seconds, now) ==
    /\ sessions' = purge_sessions(sessions, older_than_seconds, now)
    /\ sweep' = [op |-> "purge", timeout |-> older_than_seconds, now |-> now,
                 pre |-> sessions,
                 ret |-> purge_rowcount(sessions, older_than_seconds, now),
                 rep |-> RepeatOf("purge", older_than_seconds, now)]
    /\ UNCHANGED <<nCreated, wall, ticks, req, hk, hubVars, appVars>>

NextSweep ==
    \/ \E timeout \in Times, now \in Times : call_mark_stale_sessions(timeout, now)
    \/ \E older \in Times, now \in Times : call_purge_sessions(older, now)

SpecSweep == InitSweep /\ [][NextSweep]_vars

-----------------------------------------------------------------------------
(* The sweeps of successive housekeeping ticks (app.py session_housekeeper    *)
(* calls each sweep again at every tick, with a later now), on an arbitrary  *)
(* table, with the table before the previous sweep kept for comparison       *)

\* the call before this one was the same sweep with the same window, at a
\* time that is not later
Follows(op, seconds, now) ==
    sweep.op = op /\ sweep.timeout = seconds /\ sweep.now <= now

tick_mark_stale_sessions(timeout_seconds, now) ==
    /\ sessions' = mark_stale_sessions(sessions, timeout_seconds, now)
    /\ sweep' = [op |-> "mark_stale", timeout |-> timeout_seconds, now |-> now,
                 pre |-> sessions,
                 ret |-> mark_stale_rowcount(sessions, timeout_seconds, now),
                 rep |-> -1,
                 t1 |-> IF Follows("mark_stale", timeout_seconds, now)
                        THEN sweep.now ELSE -1,
                 base |-> IF Follows("mark_stale", timeout_seconds, now)
                          THEN sweep.pre ELSE sessions]
    /\ UNCHANGED <<nCreated, wall, ticks, req, hk, hubVars, appVars>>

tick_purge_sessions(older_than_seconds, now) ==
    /\ sessions' = purge_sessions(sessions, older_than_seconds, now)
    /\ sweep' = [op |-> "purge", timeout |-> older_than_seconds, now |-> now,
                 pre |-> sessions,
                 ret |-> purge_rowcount(sessions, older_than_seconds, now),
                 rep |-> -1,
                 t1 |-> IF Follows("purge", older_than_seconds, now)
                        THEN sweep.now ELSE -1,
                 base |-> IF Follows("purge", older_than_seconds, now)
                          THEN sweep.pre ELSE sessions]
    /\ UNCHANGED <<nCreated, wall, ticks, req, hk, hubVars, appVars>>

NextDelay ==
    \/ \E timeout \in Times, now \in Times : tick_mark_stale_sessions(timeout, now)
    \/ \E older \in Times, now \in Times : tick_purge_sessions(older, now)

SpecDelay == InitSweep /\ [][NextDelay]_vars

-----------------------------------------------------------------------------
(* POST /api/session (app.py create_session) called on an arbitrary table,    *)
(* one call at a time                                                        *)

HTTP_OK == 200
HTTP_NOT_FOUND == 404

\* create_session: if not storage.get_peer(peer_id): raise HTTPException(404)
call_create_session_404(peer_id) ==
    /\ get_peer(peer_id) = None
    /\ sweep' = [op |-> "create", peer |-> peer_id, timeout |-> 0, now |-> 0,
                 pre |-> sessions, ret |-> HTTP_NOT_FOUND, rep |-> -1]
    /\ UNCHANGED <<sessions, nCreated, wall, ticks, req, hk, hubVars, appVars>>

\* create_session: the peer is found, storage.create_session(peer_id)
call_create_session(peer_id, now) ==
    /\ get_peer(peer_id) # None
    /\ nCreated < MaxRows + MaxSessions
    /\ nCreated' = nCreated + 1
    /\ sessions' = InsertRow(sessions, nCreated + 1, NewRow(peer_id, now))
    /\ sweep' = [op |-> "create", peer |-> peer_id, timeout |-> 0, now |-> now,
                 pre |-> sessions, ret |-> HTTP_OK, rep |-> -1]
    /\ UNCHANGED <<wall, ticks, req, hk, hubVars, appVars>>

NextCreate ==
    \/ \E peer_id \in PeerArgs : call_create_session_404(peer_id)
    \/ \E peer_id \in PeerArgs, now \in Times : call_create_session(peer_id, now)

SpecCreate == InitSweep /\ [][NextCreate]_vars

-----------------------------------------------------------------------------
(* GET /api/session/{id}, POST /api/session/{id}/accept and .../end (app.py)  *)
(* called on an arbitrary table, one call at a time                          *)

\* the ids a request may name: the ids of the table and one more
SessionArgs == 1..(MaxRows + 1)

\* get_session: 404 when storage.get_session finds nothing, the row otherwise
call_get_session(sid) ==
    /\ sweep' = [op |-> "get", sid |-> sid, timeout |-> 0, now |-> 0, pre |-> sessions,
                 ret |-> IF get_session(sessions, sid) = NoRow
                         THEN HTTP_NOT_FOUND ELSE HTTP_OK,
                 row |-> get_session(sessions, sid), rep |-> -1]
    /\ UNCHANGED <<sessions, nCreated, wall, ticks, req, hk, hubVars, appVars>>

\* accept_session / end_session: if not session: raise HTTPException(404)
call_transition_404(op, sid) ==
    /\ get_session(sessions, sid) = NoRow
    /\ sweep' = [op |-> op, sid |-> sid, timeout |-> 0, now |-> 0, pre |-> sessions,
                 ret |-> HTTP_NOT_FOUND, row |-> NoRow, rep |-> -1]
    /\ UNCHANGED <<sessions, nCreated, wall, ticks, req, hk, hubVars, appVars>>

\* accept_session / end_session: the session is found, update_session_status,
\* the answer carries the row with the new status and time
call_transition(op, sid, now) ==
    /\ get_session(sessions, sid) # NoRow
    /\ sessions' = update_session_status(sessions, sid, NewStatus(op), now)
    /\ sweep' = [op |-> op, sid |-> sid, timeout |-> 0, now |-> now, pre |-> sessions,
                 ret |-> HTTP_OK,
                 row |-> [get_session(sessions, sid) EXCEPT !.status = NewStatus(op),
                                                            !.updated_at = now],
                 rep |-> -1]
    /\ UNCHANGED <<nCreated, wall, ticks, req, hk, hubVars, appVars>>

NextLookup ==
    \/ \E sid \in SessionArgs : call_get_session(sid)
    \/ \E op \in {"accept", "end"}, sid \in SessionArgs : call_transition_404(op, sid)
    \/ \E op \in {"accept", "end"}, sid \in SessionArgs, now \in Times :
          call_transition(op, sid, now)

SpecLookup == InitSweep /\ [][NextLookup]_vars

-----------------------------------------------------------------------------
(* storage.py: the peers and metadata tables, called one call at a time on a  *)
(* store that starts empty (startup calls ensure_seed_peers, then            *)
(* ensure_local_peer; POST /api/status updates the local peer)               *)

\* the values uuid.uuid4().hex[:n] may draw
MaxUuid == 3
Uuids == 1..MaxUuid

\* "local-" + uuid.uuid4().hex[:8]
LocalId(u) == "local-" \o ToString(u)

\* "peer-" + uuid.uuid4().hex[:6]
StarterId(u) == "peer-" \o ToString(u)

PeerStatuses == {"online", "away"}

\* a metadata table that answers no key
get_metadata_none(meta, key) == None

\* SELECT value FROM metadata WHERE key = ?
get_metadata(meta, key) == IF key \in DOMAIN meta THEN meta[key] ELSE None

\* INSERT OR REPLACE INTO metadata (key, value)
set_metadata(meta, key, value) ==
    [k \in DOMAIN meta \cup {key} |-> IF k = key THEN value ELSE meta[k]]

\* SELECT COUNT(*) FROM peers
count_peers(tbl) == Cardinality(DOMAIN tbl)

\* SELECT * FROM peers WHERE id = ? (the row's status, None when absent)
get_peer_row(tbl, peer_id) == IF peer_id \in DOMAIN tbl THEN tbl[peer_id] ELSE None

\* INSERT OR REPLACE INTO peers
upsert_peer(tbl, peer_id, status) ==
    [k \in DOMAIN tbl \cup {peer_id} |-> IF k = peer_id THEN status ELSE tbl[k]]

\* UPDATE peers SET status = ? WHERE id = ?
update_peer_status(tbl, peer_id, status) ==
    [k \in DOMAIN tbl |-> IF k = peer_id THEN status ELSE tbl[k]]

\* ensure_local_peer with u the uuid it draws when it creates a peer: the
\* tables it leaves and the id of the peer it returns
ensure_local_peer(tbl, meta, u) ==
    LET local_id == get_metadata(meta, "local_peer_id") IN
    IF local_id # None /\ get_peer_row(tbl, local_id) # None
    THEN [peers |-> tbl, metadata |-> meta, ret |-> local_id]
    ELSE [peers |-> upsert_peer(tbl, LocalId(u), "online"),
          metadata |-> set_metadata(meta, "local_peer_id", LocalId(u)),
          ret |-> LocalId(u)]

\* ensure_seed_peers with the uuids it draws: on an empty table the local
\* peer and the three starter peers, otherwise the local peer only
ensure_seed_peers(tbl, meta, u, a, b, c) ==
    LET local == ensure_local_peer(tbl, meta, u) IN
    IF count_peers(tbl) = 0
    THEN [local EXCEPT !.peers =
              upsert_peer(upsert_peer(upsert_peer(local.peers, StarterId(a), "online"),
                                      StarterId(b), "online"),
                          StarterId(c), "away")]
    ELSE local

call_ensure_local_peer(u) ==
    LET out == ensure_local_peer(peer_rows, metadata, u) IN
    /\ peer_rows' = out.peers
    /\ metadata' = out.metadata
    /\ sweep' = [op |-> "ensure_local_peer", pre |-> peer_rows, meta |-> metadata,
                 ret |-> out.ret]
    /\ UNCHANGED <<sessions, nCreated, wall, ticks, req, hk, hubVars, stop_event,
                   shutdown, discovered, cleanup>>

call_ensure_seed_peers(u, a, b, c) ==
    LET out == ensure_seed_peers(peer_rows, metadata, u, a, b, c) IN
    /\ peer_rows' = out.peers
    /\ metadata' = out.metadata
    /\ sweep' = [op |-> "ensure_seed_peers", pre |-> peer_rows, meta |-> metadata,
                 ret |-> None]
    /\ UNCHANGED <<sessions, nCreated, wall, ticks, req, hk, hubVars, stop_event,
                   shutdown, discovered, cleanup>>

\* POST /api/status: app.state.local_peer_id is the peer startup recorded
call_update_status(status) ==
    LET local_id == get_metadata(metadata, "local_peer_id") IN
    /\ local_id # None
    /\ get_peer_row(peer_rows, local_id) # None
    /\ peer_rows' = update_peer_status(peer_rows, local_id, status)
    /\ sweep' = [op |-> "update_status", pre |-> peer_rows, meta |-> metadata,
                 ret |-> local_id]
    /\ UNCHANGED <<sessions, nCreated, wall, ticks, req, hk, hubVars, stop_event,
                   shutdown, metadata, discovered, cleanup>>

NextPeers ==
    \/ \E u \in Uuids : call_ensure_local_peer(u)
    \/ \E u \in Uuids, a \in Uuids, b \in Uuids, c \in Uuids :
          call_ensure_seed_peers(u, a, b, c)
    \/ \E status \in PeerStatuses : call_update_status(status)

SpecPeers == InitStore /\ [][NextPeers]_vars

-----------------------------------------------------------------------------
(* ws_signaling.py (SignalingHub, signaling_ws) and signaling.py               *)
(* (broadcast, ws_signaling).  One coroutine per connection; a step runs a     *)
(* coroutine from one await to the next, so nothing interleaves inside a step. *)

BcPcs == {"join_bc", "relay_bc", "disc_bc"}

\* the send_text of `frame` to connection `to`, made for connection `src`
Send(to, frame, src) == [to |-> to, ok |-> link[to] = "open", frame |-> frame, src |-> src]

\* for ws in rooms[room_id]: the iteration starts over `members`
Broadcast(tk, pc, room_id, message, exclude, members) ==
    [tk EXCEPT !.pc = pc, !.room = room_id, !.frame = message, !.excl = exclude,
               !.snap = members, !.visited = {}, !.dead = {}]

\* hub.touch(websocket)
touch(ls, ws) == IF impl = "hub" THEN Put(ls, ws, mono) ELSE ls

\* self._heartbeat_task and not self._heartbeat_task.done(): the loop never
\* returns, it is done only when an exception has ended it
HeartbeatAlive ==
    /\ heartbeat.pc # None
    /\ HeartbeatTask \in DOMAIN task => task[HeartbeatTask].pc # "crashed"

\* hub.connect / ws.accept(); _ensure_heartbeat_task
connect(c) ==
    /\ running = NoConn
    /\ task[c].pc = "new"
    /\ \A d \in DOMAIN task : d < c => task[d].pc # "new"
    /\ link' = [link EXCEPT ![c] = "open"]
    /\ last_seen' = touch(last_seen, c)
    /\ IF impl = "hub" /\ ~HeartbeatAlive
         THEN /\ heartbeat' = Sleeping(mono)
              /\ task' = [d \in DOMAIN task |->
                             IF d = c THEN Task("recv", c)
                             ELSE IF d = HeartbeatTask THEN Task("idle", NoConn)
                             ELSE task[d]]
         ELSE /\ heartbeat' = heartbeat
              /\ task' = [task EXCEPT ![c] = Task("recv", c)]
    /\ lastSend' = NoSend
    /\ UNCHANGED <<impl, received, roomKeys, rooms, peers, who, running, mono, joinedRooms,
                   joinedAs, storeVars, EXPECTED_TOKEN, closed, appVars>>

\* the client goes away: sends to it fail, its receive raises WebSocketDisconnect
client_drop(c) ==
    /\ running = NoConn
    /\ link[c] = "open"
    /\ Cardinality({d \in DOMAIN link : link[d] = "dropped"}) < MaxDrops
    /\ link' = [link EXCEPT ![c] = "dropped"]
    /\ lastSend' = NoSend
    /\ UNCHANGED <<impl, received, roomKeys, rooms, peers, who, last_seen, task, mono,
                   running, joinedRooms, joinedAs, storeVars, beatVars, appVars>>

\* data = await websocket.receive_text() returns a frame
Receiving(c) ==
    /\ running = NoConn
    /\ task[c].pc = "recv"
    /\ link[c] = "open"
    /\ received < MaxFrames
    /\ received' = received + 1

AddMember(rm, room_id, ws) == Put(rm, room_id, (IF room_id \in DOMAIN rm THEN rm[room_id] ELSE {}) \cup {ws})

AddKey(keys, room_id) == IF room_id \in DOMAIN rooms THEN keys ELSE Append(keys, room_id)

PeerJoined(peer_id) == Frame("peer_joined", None, peer_id, None)
PeerLeft(peer_id) == Frame("peer_left", None, peer_id, None)
Joined(room_id, peer_id) == Frame("joined", room_id, peer_id, None)

\* what a join frame can carry in its token field
Tokens == {None, "secret", "wrong"}

\* signaling_ws lets the join frame through
AuthorizedAny(token) == TRUE

\* signaling_ws lets the join frame through: no secret is configured, or the
\* frame has a token and it is the secret
Authorized(token) == EXPECTED_TOKEN = None \/ (token # None /\ token = EXPECTED_TOKEN)

\* signaling_ws: a join frame; SignalingHub.join_room up to its first await
hub_join(c, room_id, peer_id, token) ==
    /\ impl = "hub"
    /\ Receiving(c)
    /\ Authorized(token)
    /\ last_seen' = touch(last_seen, c)
    /\ roomKeys' = AddKey(roomKeys, room_id)
    /\ rooms' = AddMember(rooms, room_id, c)
    /\ peers' = Put(peers, c, peer_id)
    /\ task' = [task EXCEPT ![c] =
                   Broadcast([Task("join_bc", c) EXCEPT !.peer = peer_id, !.given = token],
                             "join_bc", room_id, PeerJoined(peer_id), c, rooms'[room_id])]
    /\ running' = c
    /\ joinedRooms' = [joinedRooms EXCEPT ![c] = @ \cup {room_id}]
    /\ joinedAs' = [joinedAs EXCEPT ![c] = peer_id]
    /\ lastSend' = NoSend
    /\ UNCHANGED <<impl, who, link, mono, storeVars, beatVars, appVars>>

\* signaling_ws: a join frame without the secret: websocket.close(code=1008), return
hub_join_reject(c, token) ==
    /\ impl = "hub"
    /\ Receiving(c)
    /\ ~Authorized(token)
    /\ last_seen' = touch(last_seen, c)
    /\ closed' = [closed EXCEPT ![c] =
                     Close(POLICY_VIOLATION,
                           IF token = None THEN "missing token" ELSE "invalid token")]
    /\ link' = [link EXCEPT ![c] = "closed"]
    /\ task' = [task EXCEPT ![c] = [Task("returned", c) EXCEPT !.given = token]]
    /\ lastSend' = NoSend
    /\ UNCHANGED <<impl, roomKeys, rooms, peers, who, running, mono, joinedRooms, joinedAs,
                   storeVars, EXPECTED_TOKEN, heartbeat, appVars>>

\* ws_signaling: a join frame, up to the first await
legacy_join(c, room_id, peer_id) ==
    /\ impl = "legacy"
    /\ Receiving(c)
    /\ who' = Put(who, c, <<room_id, peer_id>>)
    /\ roomKeys' = AddKey(roomKeys, room_id)
    /\ rooms' = AddMember(rooms, room_id, c)
    /\ task' = [task EXCEPT ![c] =
                   Broadcast([Task("join_bc", c) EXCEPT !.peer = peer_id], "join_bc", room_id,
                             PeerJoined(peer_id), c, rooms'[room_id])]
    /\ running' = c
    /\ joinedRooms' = [joinedRooms EXCEPT ![c] = @ \cup {room_id}]
    /\ joinedAs' = [joinedAs EXCEPT ![c] = peer_id]
    /\ lastSend' = NoSend
    /\ UNCHANGED <<impl, peers, last_seen, link, mono, storeVars, beatVars, appVars>>

\* the stamp left out: the frame goes out as the sender wrote it
Unstamped(message, peer_id) == message

\* message["fromPeerId"] = peer_id
Stamp(message, peer_id) == [message EXCEPT !.fromPeerId = peer_id]

\* SignalingHub.relay: the room the broadcast goes to
RelayRoom(ws, message) == message.roomId

\* SignalingHub.relay: no roomId in the frame, or no such room: return
hub_relay_drop(c, room_id, forged) ==
    /\ impl = "hub"
    /\ Receiving(c)
    /\ LET message == Frame("offer", room_id, None, forged)
       IN  RelayRoom(c, message) = None \/ RelayRoom(c, message) \notin DOMAIN rooms
    /\ last_seen' = touch(last_seen, c)
    /\ lastSend' = NoSend
    /\ UNCHANGED <<impl, roomKeys, rooms, peers, who, task, running, link, mono,
                   joinedRooms, joinedAs, storeVars, beatVars, appVars>>

\* SignalingHub.relay up to its first await
hub_relay(c, room_id, forged) ==
    /\ impl = "hub"
    /\ Receiving(c)
    /\ LET message == Frame("offer", room_id, None, forged)
           dest == RelayRoom(c, message)
       IN  /\ dest # None
           /\ dest \in DOMAIN rooms
           /\ task' = [task EXCEPT ![c] =
                          Broadcast([Task("relay_bc", c) EXCEPT !.given = forged], "relay_bc", dest,
                                    Stamp(message, Get(peers, c)), c, rooms[dest])]
    /\ last_seen' = touch(last_seen, c)
    /\ running' = c
    /\ lastSend' = NoSend
    /\ UNCHANGED <<impl, roomKeys, rooms, peers, who, link, mono, joinedRooms,
                   joinedAs, storeVars, beatVars, appVars>>

\* signaling_ws: a ping frame is answered with pong
hub_ping(c) ==
    /\ impl = "hub"
    /\ Receiving(c)
    /\ last_seen' = touch(last_seen, c)
    /\ lastSend' = Send(c, Pong, c)
    /\ UNCHANGED <<impl, roomKeys, rooms, peers, who, task, running, link, mono,
                   joinedRooms, joinedAs, storeVars, beatVars, appVars>>

\* ws_signaling: a frame from a connection that is not joined: the error reply
legacy_relay_error(c, room_id, forged) ==
    /\ impl = "legacy"
    /\ Receiving(c)
    /\ c \notin DOMAIN who
    /\ lastSend' = Send(c, Frame("error", None, None, None), c)
    /\ UNCHANGED <<impl, roomKeys, rooms, peers, who, last_seen, task, running, link,
                   mono, joinedRooms, joinedAs, storeVars, beatVars, appVars>>

\* ws_signaling: relay to the room recorded for the sender, up to the first await
legacy_relay(c, room_id, forged) ==
    /\ impl = "legacy"
    /\ Receiving(c)
    /\ c \in DOMAIN who
    /\ LET message == Frame("offer", room_id, None, forged)
           dest == who[c][1]
       IN  task' = [task EXCEPT ![c] =
                       Broadcast([Task("relay_bc", c) EXCEPT !.given = forged], "relay_bc", dest,
                                 Stamp(message, who[c][2]), c, rooms[dest])]
    /\ running' = c
    /\ lastSend' = NoSend
    /\ UNCHANGED <<impl, roomKeys, rooms, peers, who, last_seen, link, mono,
                   joinedRooms, joinedAs, storeVars, beatVars, appVars>>

\* signaling.py: a ping frame from a connection that is not joined takes the
\* path of any frame that is not a join: the error reply
legacy_ping_error(c) ==
    /\ impl = "legacy"
    /\ Receiving(c)
    /\ c \notin DOMAIN who
    /\ lastSend' = Send(c, Frame("error", None, None, None), c)
    /\ UNCHANGED <<impl, roomKeys, rooms, peers, who, last_seen, task, running, link,
                   mono, joinedRooms, joinedAs, storeVars, beatVars, appVars>>

\* signaling.py: a ping frame from a joined connection takes the path of any
\* frame that is not a join: stamped and broadcast to the sender's room
legacy_ping(c) ==
    /\ impl = "legacy"
    /\ Receiving(c)
    /\ c \in DOMAIN who
    /\ task' = [task EXCEPT ![c] =
                   Broadcast(Task("relay_bc", c), "relay_bc", who[c][1],
                             Stamp(Ping, who[c][2]), c, rooms[who[c][1]])]
    /\ running' = c
    /\ lastSend' = NoSend
    /\ UNCHANGED <<impl, roomKeys, rooms, peers, who, last_seen, link, mono,
                   joinedRooms, joinedAs, storeVars, beatVars, appVars>>

\* the coroutine is in a broadcast and may run; the set it iterates has kept its size
Iterating(c) ==
    /\ running \in {NoConn, c}
    /\ task[c].pc \in BcPcs
    /\ Cardinality(rooms[task[c].room]) = Cardinality(task[c].snap)

\* the exclusion left out of the iteration
PendingAll(c) == rooms[task[c].room] \ task[c].visited

\* the members the iteration can yield next that pass `if ws is exclude: continue`;
\* over a set changed under it (same size) it can yield any member, again or never
Pending(c) ==
    IF rooms[task[c].room] = task[c].snap
    THEN rooms[task[c].room] \ (task[c].visited \cup {task[c].excl})
    ELSE rooms[task[c].room] \ {task[c].excl}

\* the iteration is exhausted; over a set changed under it (same size) it can
\* end at any point
Exhausted(c) == rooms[task[c].room] = task[c].snap => Pending(c) = {}

\* _broadcast / broadcast: the next member, await ws.send_text(...)
broadcast_send(c, x) ==
    /\ Iterating(c)
    /\ x \in Pending(c)
    /\ lastSend' = Send(x, task[c].frame, task[c].ws)
    /\ task' = [task EXCEPT ![c].visited = @ \cup {x},
                            ![c].dead = IF link[x] = "open" THEN @ ELSE @ \cup {x}]
    /\ running' = NoConn
    /\ UNCHANGED <<impl, received, roomKeys, rooms, peers, who, last_seen, link, mono,
                   joinedRooms, joinedAs, storeVars, beatVars, appVars>>

\* _broadcast: for ws in dead: discard, pop, pop.  broadcast: discard only
RemoveDead(c) ==
    /\ rooms' = [rooms EXCEPT ![task[c].room] = @ \ task[c].dead]
    /\ peers' = IF impl = "hub" THEN Drop(peers, task[c].dead) ELSE peers
    /\ last_seen' = IF impl = "hub" THEN Drop(last_seen, task[c].dead) ELSE last_seen

\* the broadcast of join ends; the joined acknowledgment comes next, no await between
join_broadcast_done(c) ==
    /\ Iterating(c)
    /\ task[c].pc = "join_bc"
    /\ Exhausted(c)
    /\ RemoveDead(c)
    /\ task' = [task EXCEPT ![c].pc = "join_ack"]
    /\ running' = c
    /\ lastSend' = NoSend
    /\ UNCHANGED <<impl, received, roomKeys, who, link, mono, joinedRooms, joinedAs, storeVars, beatVars,
                   appVars>>

\* the broadcast of relay ends; back to receive_text
relay_broadcast_done(c) ==
    /\ Iterating(c)
    /\ task[c].pc = "relay_bc"
    /\ Exhausted(c)
    /\ RemoveDead(c)
    /\ task' = [task EXCEPT ![c] = Task("recv", c)]
    /\ running' = NoConn
    /\ lastSend' = NoSend
    /\ UNCHANGED <<impl, received, roomKeys, who, link, mono, joinedRooms, joinedAs, storeVars, beatVars,
                   appVars>>

\* for ... in a set that changed size: RuntimeError, which signaling_ws /
\* ws_signaling do not catch; the server closes the connection
broadcast_raise(c) ==
    /\ running \in {NoConn, c}
    /\ task[c].pc \in BcPcs
    /\ Cardinality(rooms[task[c].room]) # Cardinality(task[c].snap)
    /\ task' = [task EXCEPT ![c] = Task("crashed", c)]
    /\ link' = [d \in DOMAIN link |-> IF d = c THEN "closed" ELSE link[d]]
    /\ running' = NoConn
    /\ lastSend' = NoSend
    /\ UNCHANGED <<impl, received, roomKeys, rooms, peers, who, last_seen, mono, joinedRooms,
                   joinedAs, storeVars, beatVars, appVars>>

\* await websocket.send_text(joined): delivered
join_ack(c) ==
    /\ running = c
    /\ task[c].pc = "join_ack"
    /\ link[c] = "open"
    /\ lastSend' = Send(c, Joined(task[c].room, task[c].peer), c)
    /\ task' = [task EXCEPT ![c] = Task("recv", c)]
    /\ running' = NoConn
    /\ UNCHANGED <<impl, received, roomKeys, rooms, peers, who, last_seen, link, mono,
                   joinedRooms, joinedAs, storeVars, beatVars, appVars>>

\* await websocket.send_text(joined) raises something other than WebSocketDisconnect
join_ack_raise(c) ==
    /\ running = c
    /\ task[c].pc = "join_ack"
    /\ link[c] # "open"
    /\ lastSend' = Send(c, Joined(task[c].room, task[c].peer), c)
    /\ task' = [task EXCEPT ![c] = Task("crashed", c)]
    /\ running' = NoConn
    /\ UNCHANGED <<impl, received, roomKeys, rooms, peers, who, last_seen, link, mono, joinedRooms,
                   joinedAs, storeVars, beatVars, appVars>>

\* WebSocketDisconnect reaches the handler: from receive_text, or from the send
\* of the joined acknowledgment to a client that went away
Disconnected(c) ==
    \/ running = NoConn /\ task[c].pc = "recv" /\ link[c] # "open"
    \/ running = c /\ task[c].pc = "join_ack" /\ link[c] = "dropped"

AckAttempt(c) ==
    IF task[c].pc = "join_ack" THEN Send(c, Joined(task[c].room, task[c].peer), c)
    ELSE NoSend

\* except WebSocketDisconnect: await hub.disconnect(websocket); the rooms loop starts
hub_disconnect(c) ==
    /\ impl = "hub"
    /\ Disconnected(c)
    /\ task' = [task EXCEPT ![c] = [Task("disc", c) EXCEPT !.peer = Get(peers, c), !.di = 1,
                                                          !.dsize = Len(roomKeys)]]
    /\ running' = c
    /\ lastSend' = AckAttempt(c)
    /\ UNCHANGED <<impl, received, roomKeys, rooms, peers, who, last_seen, link, mono,
                   joinedRooms, joinedAs, storeVars, beatVars, appVars>>

\* for room_id, sockets in self.rooms.items(): a room the connection is in
disconnect_leave(c) ==
    /\ running = c
    /\ task[c].pc = "disc"
    /\ Len(roomKeys) = task[c].dsize
    /\ task[c].di <= Len(roomKeys)
    /\ LET room_id == roomKeys[task[c].di]
       IN  /\ task[c].ws \in rooms[room_id]
           /\ rooms' = [rooms EXCEPT ![room_id] = @ \ {task[c].ws}]
           /\ task' = [task EXCEPT ![c] =
                          Broadcast([task[c] EXCEPT !.di = @ + 1], "disc_bc", room_id,
                                    PeerLeft(task[c].peer), task[c].ws, rooms'[room_id])]
    /\ lastSend' = NoSend
    /\ UNCHANGED <<impl, received, roomKeys, peers, who, last_seen, running, link, mono,
                   joinedRooms, joinedAs, storeVars, beatVars, appVars>>

\* for room_id, sockets in self.rooms.items(): a room the connection is not in
disconnect_skip(c) ==
    /\ running = c
    /\ task[c].pc = "disc"
    /\ Len(roomKeys) = task[c].dsize
    /\ task[c].di <= Len(roomKeys)
    /\ task[c].ws \notin rooms[roomKeys[task[c].di]]
    /\ task' = [task EXCEPT ![c].di = @ + 1]
    /\ lastSend' = NoSend
    /\ UNCHANGED <<impl, received, roomKeys, rooms, peers, who, last_seen, running, link, mono,
                   joinedRooms, joinedAs, storeVars, beatVars, appVars>>

\* the broadcast of peer_left ends: the rooms loop goes on (hub)
hub_disconnect_broadcast_done(c) ==
    /\ impl = "hub"
    /\ Iterating(c)
    /\ task[c].pc = "disc_bc"
    /\ Exhausted(c)
    /\ RemoveDead(c)
    /\ task' = [task EXCEPT ![c].pc = "disc"]
    /\ running' = c
    /\ lastSend' = NoSend
    /\ UNCHANGED <<impl, received, roomKeys, who, link, mono, joinedRooms, joinedAs, storeVars, beatVars,
                   appVars>>

\* the rooms dict changed size during the loop: RuntimeError out of disconnect
disconnect_raise(c) ==
    /\ running = c
    /\ task[c].pc = "disc"
    /\ Len(roomKeys) # task[c].dsize
    /\ task' = [task EXCEPT ![c] = Task("crashed", c)]
    /\ link' = [d \in DOMAIN link |-> IF d = c THEN "closed" ELSE link[d]]
    /\ running' = NoConn
    /\ lastSend' = NoSend
    /\ UNCHANGED <<impl, received, roomKeys, rooms, peers, who, last_seen, mono, joinedRooms,
                   joinedAs, storeVars, beatVars, appVars>>

\* the rooms loop is over: self.peers.pop, self.last_seen.pop
disconnect_end(c) ==
    /\ running = c
    /\ task[c].pc = "disc"
    /\ Len(roomKeys) = task[c].dsize
    /\ task[c].di > Len(roomKeys)
    /\ peers' = Drop(peers, {task[c].ws})
    /\ last_seen' = Drop(last_seen, {task[c].ws})
    /\ task' = [task EXCEPT ![c] = Task("done", c)]
    /\ running' = NoConn
    /\ lastSend' = NoSend
    /\ UNCHANGED <<impl, received, roomKeys, rooms, who, link, mono, joinedRooms, joinedAs,
                   storeVars, beatVars, appVars>>

\* ws_signaling, except WebSocketDisconnect: the connection was joined
legacy_disconnect(c) ==
    /\ impl = "legacy"
    /\ Disconnected(c)
    /\ c \in DOMAIN who
    /\ LET room_id == who[c][1]
           peer_id == who[c][2]
       IN  /\ rooms' = [rooms EXCEPT ![room_id] = @ \ {c}]
           /\ task' = [task EXCEPT ![c] =
                          Broadcast(Task("disc_bc", c), "disc_bc", room_id,
                                    PeerLeft(peer_id), NoConn, rooms'[room_id])]
    /\ running' = c
    /\ lastSend' = AckAttempt(c)
    /\ UNCHANGED <<impl, received, roomKeys, peers, who, last_seen, link, mono, joinedRooms,
                   joinedAs, storeVars, beatVars, appVars>>

\* ws_signaling, except WebSocketDisconnect: the connection was not joined
legacy_disconnect_unjoined(c) ==
    /\ impl = "legacy"
    /\ Disconnected(c)
    /\ c \notin DOMAIN who
    /\ task' = [task EXCEPT ![c] = Task("done", c)]
    /\ running' = NoConn
    /\ lastSend' = AckAttempt(c)
    /\ UNCHANGED <<impl, received, roomKeys, rooms, peers, who, last_seen, link, mono,
                   joinedRooms, joinedAs, storeVars, beatVars, appVars>>

\* the broadcast of peer_left ends: who.pop(ws, None)
legacy_disconnect_broadcast_done(c) ==
    /\ impl = "legacy"
    /\ Iterating(c)
    /\ task[c].pc = "disc_bc"
    /\ Exhausted(c)
    /\ RemoveDead(c)
    /\ who' = Drop(who, {c})
    /\ task' = [task EXCEPT ![c] = Task("done", c)]
    /\ running' = NoConn
    /\ lastSend' = NoSend
    /\ UNCHANGED <<impl, received, roomKeys, link, mono, joinedRooms, joinedAs, storeVars, beatVars,
                   appVars>>

InitHub ==
    /\ StoreOff
    /\ AppOff
    /\ impl \in {"hub", "legacy"}
    /\ roomKeys = <<>>
    /\ rooms = <<>>
    /\ peers = <<>>
    /\ who = <<>>
    /\ last_seen = <<>>
    /\ task = [c \in Conns |-> Task("new", c)]
    /\ running = NoConn
    /\ link = [c \in Conns |-> "new"]
    /\ mono = 0
    /\ joinedRooms = [c \in Conns |-> {}]
    /\ joinedAs = [c \in Conns |-> None]
    /\ lastSend = NoSend
    /\ received = 0
    /\ EXPECTED_TOKEN = None
    /\ heartbeat = NoHeartbeat
    /\ closed = [c \in Conns |-> NoClose]

NextHub ==
    \/ \E c \in DOMAIN task : connect(c)
    \/ \E c \in DOMAIN task : client_drop(c)
    \/ \E c \in DOMAIN task, r \in RoomIds, p \in PeerIds : hub_join(c, r, p, None)
    \/ \E c \in DOMAIN task, r \in RoomIds, p \in PeerIds : legacy_join(c, r, p)
    \/ \E c \in DOMAIN task, r \in RoomIds \cup {None}, f \in PeerIds \cup {None} :
          hub_relay_drop(c, r, f)
    \/ \E c \in DOMAIN task, r \in RoomIds \cup {None}, f \in PeerIds \cup {None} :
          hub_relay(c, r, f)
    \/ \E c \in DOMAIN task, r \in RoomIds \cup {None}, f \in PeerIds \cup {None} :
          legacy_relay_error(c, r, f)
    \/ \E c \in DOMAIN task, r \in RoomIds \cup {None}, f \in PeerIds \cup {None} :
          legacy_relay(c, r, f)
    \/ \E c \in DOMAIN task, x \in DOMAIN task : broadcast_send(c, x)
    \/ \E c \in DOMAIN task : hub_ping(c)
    \/ \E c \in DOMAIN task : legacy_ping_error(c)
    \/ \E c \in DOMAIN task : legacy_ping(c)
    \/ \E c \in DOMAIN task : join_broadcast_done(c)
    \/ \E c \in DOMAIN task : relay_broadcast_done(c)
    \/ \E c \in DOMAIN task : broadcast_raise(c)
    \/ \E c \in DOMAIN task : join_ack(c)
    \/ \E c \in DOMAIN task : join_ack_raise(c)
    \/ \E c \in DOMAIN task : hub_disconnect(c)
    \/ \E c \in DOMAIN task : disconnect_leave(c)
    \/ \E c \in DOMAIN task : disconnect_skip(c)
    \/ \E c \in DOMAIN task : hub_disconnect_broadcast_done(c)
    \/ \E c \in DOMAIN task : disconnect_raise(c)
    \/ \E c \in DOMAIN task : disconnect_end(c)
    \/ \E c \in DOMAIN task : legacy_disconnect(c)
    \/ \E c \in DOMAIN task : legacy_disconnect_unjoined(c)
    \/ \E c \in DOMAIN task : legacy_disconnect_broadcast_done(c)

SpecHub == InitHub /\ [][NextHub]_vars

\* the steps the event loop takes by itself: a coroutine that is ready to run
\* is run; a client, by contrast, need never send a frame or go away
Resumes ==
    \/ \E c \in DOMAIN task, x \in DOMAIN task : broadcast_send(c, x)
    \/ \E c \in DOMAIN task : join_broadcast_done(c)
    \/ \E c \in DOMAIN task : relay_broadcast_done(c)
    \/ \E c \in DOMAIN task : broadcast_raise(c)
    \/ \E c \in DOMAIN task : join_ack(c)
    \/ \E c \in DOMAIN task : join_ack_raise(c)
    \/ \E c \in DOMAIN task : hub_disconnect(c)
    \/ \E c \in DOMAIN task : disconnect_leave(c)
    \/ \E c \in DOMAIN task : disconnect_skip(c)
    \/ \E c \in DOMAIN task : hub_disconnect_broadcast_done(c)
    \/ \E c \in DOMAIN task : disconnect_raise(c)
    \/ \E c \in DOMAIN task : disconnect_end(c)
    \/ \E c \in DOMAIN task : legacy_disconnect(c)
    \/ \E c \in DOMAIN task : legacy_disconnect_unjoined(c)
    \/ \E c \in DOMAIN task : legacy_disconnect_broadcast_done(c)

SpecHubLive == InitHub /\ [][NextHub]_vars /\ WF_vars(Resumes)

\* a hub in service: connections 1 and 2 have joined room "A" as "p1" and "p2"
\* and are waiting for frames; the others have not connected yet
RoomConns == 1..NumRoomConns
Members == {1, 2}
MemberPeer(c) == IF c = 1 THEN "p1" ELSE "p2"

InitRoom ==
    /\ StoreOff
    /\ AppOff
    /\ impl \in {"hub", "legacy"}
    /\ roomKeys = <<"A">>
    /\ rooms = [r \in {"A"} |-> Members]
    /\ peers = IF impl = "hub" THEN [c \in Members |-> MemberPeer(c)] ELSE <<>>
    /\ who = IF impl = "legacy" THEN [c \in Members |-> <<"A", MemberPeer(c)>>] ELSE <<>>
    /\ last_seen = IF impl = "hub" THEN [c \in Members |-> 0] ELSE <<>>
    /\ task = [c \in RoomConns |-> Task(IF c \in Members THEN "recv" ELSE "new", c)]
    /\ running = NoConn
    /\ link = [c \in RoomConns |-> IF c \in Members THEN "open" ELSE "new"]
    /\ mono = 0
    /\ joinedRooms = [c \in RoomConns |-> IF c \in Members THEN {"A"} ELSE {}]
    /\ joinedAs = [c \in RoomConns |-> IF c \in Members THEN MemberPeer(c) ELSE None]
    /\ lastSend = NoSend
    /\ received = Cardinality(Members)
    /\ EXPECTED_TOKEN = None
    /\ heartbeat = IF impl = "hub" THEN Sleeping(0) ELSE NoHeartbeat
    /\ closed = [c \in RoomConns |-> NoClose]

SpecRoom == InitRoom /\ [][NextHub]_vars


-----------------------------------------------------------------------------
(* ws_signaling.py: _heartbeat_loop, and the hub under a running clock *)

NumBeatConns == 3
MaxMono == 50
BeatFrames == 1

BeatConns == 1..NumBeatConns

RECURSIVE Ascending(_)
\* the members of S, smallest first
Ascending(S) ==
    IF S = {} THEN <<>>
    ELSE LET m == CHOOSE x \in S : \A y \in S : x <= y
         IN  <<m>> \o Ascending(S \ {m})

\* stale = [ws for ws, seen_at in list(self.last_seen.items())
\*          if now - seen_at > STALE_TIMEOUT_SEC]
\* the dict keeps the connections in the order they connected
StaleList(now) ==
    Ascending({ws \in DOMAIN last_seen : now - last_seen[ws] > STALE_TIMEOUT_SEC})

\* await ws.close(code=1001, reason="stale connection"), its exception swallowed
heartbeat_close(ws) ==
    /\ link' = [link EXCEPT ![ws] = IF @ = "open" THEN "closed" ELSE @]
    /\ closed' = [closed EXCEPT ![ws] =
                     IF link[ws] = "open" THEN Close(GOING_AWAY, "stale connection") ELSE @]

\* _heartbeat_loop: the sleep is over; now = time.monotonic(); stale = [...];
\* with a stale connection, the close of the first one, up to its await
heartbeat_wake ==
    /\ running = NoConn
    /\ HeartbeatAlive
    /\ heartbeat.pc = "sleep"
    /\ mono >= heartbeat.wake
    /\ IF StaleList(mono) = <<>>
       THEN /\ heartbeat' = Sleeping(mono)
            /\ UNCHANGED <<link, closed>>
       ELSE /\ heartbeat' = [pc |-> "disconnect", wake |-> heartbeat.wake,
                             stale |-> StaleList(mono)]
            /\ heartbeat_close(Head(StaleList(mono)))
    /\ lastSend' = NoSend
    /\ UNCHANGED <<impl, received, roomKeys, rooms, peers, who, last_seen, task, running,
                   mono, joinedRooms, joinedAs, storeVars, EXPECTED_TOKEN, appVars>>

\* await self.disconnect(ws): the rooms loop starts
heartbeat_disconnect ==
    /\ running = NoConn
    /\ heartbeat.pc = "disconnect"
    /\ task[HeartbeatTask].pc = "idle"
    /\ LET ws == Head(heartbeat.stale)
       IN  task' = [task EXCEPT ![HeartbeatTask] =
                       [Task("disc", ws) EXCEPT !.peer = Get(peers, ws), !.di = 1,
                                                !.dsize = Len(roomKeys)]]
    /\ running' = HeartbeatTask
    /\ lastSend' = NoSend
    /\ UNCHANGED <<impl, received, roomKeys, rooms, peers, who, last_seen, link, mono,
                   joinedRooms, joinedAs, storeVars, beatVars, appVars>>

\* disconnect has returned: the close of the next stale connection, up to its
\* await, or the next sleep
heartbeat_next ==
    /\ running = NoConn
    /\ heartbeat.pc = "disconnect"
    /\ task[HeartbeatTask].pc = "done"
    /\ task' = [task EXCEPT ![HeartbeatTask] = Task("idle", NoConn)]
    /\ IF Tail(heartbeat.stale) = <<>>
       THEN /\ heartbeat' = Sleeping(mono)
            /\ UNCHANGED <<link, closed>>
       ELSE /\ heartbeat' = [heartbeat EXCEPT !.stale = Tail(@)]
            /\ heartbeat_close(Head(Tail(heartbeat.stale)))
    /\ lastSend' = NoSend
    /\ UNCHANGED <<impl, received, roomKeys, rooms, peers, who, last_seen, running, mono,
                   joinedRooms, joinedAs, storeVars, EXPECTED_TOKEN, appVars>>

\* time passes while every coroutine waits: on a client, or in a sleep that is
\* not over.  The clock is read on the grid of the sweeps.
elapse ==
    /\ running = NoConn
    /\ mono < MaxMono
    /\ \A c \in DOMAIN task : task[c].pc \in {"new", "recv", "idle", "done", "returned", "crashed"}
    /\ HeartbeatAlive => (heartbeat.pc = "sleep" /\ mono < heartbeat.wake)
    /\ mono' = mono + HEARTBEAT_INTERVAL_SEC
    /\ lastSend' = NoSend
    /\ UNCHANGED <<impl, received, roomKeys, rooms, peers, who, last_seen, task, running, link,
                   joinedRooms, joinedAs, storeVars, beatVars, appVars>>

\* connections 1 and 2 have joined room A at time 0; the others have yet to connect
InitBeat ==
    /\ StoreOff
    /\ AppOff
    /\ impl = "hub"
    /\ roomKeys = <<"A">>
    /\ rooms = [r \in {"A"} |-> Members]
    /\ peers = [c \in Members |-> MemberPeer(c)]
    /\ who = <<>>
    /\ last_seen = [c \in Members |-> 0]
    /\ task = [c \in BeatConns \cup {HeartbeatTask} |->
                  IF c = HeartbeatTask THEN Task("idle", NoConn)
                  ELSE Task(IF c \in Members THEN "recv" ELSE "new", c)]
    /\ running = NoConn
    /\ link = [c \in BeatConns |-> IF c \in Members THEN "open" ELSE "new"]
    /\ mono = 0
    /\ joinedRooms = [c \in BeatConns |-> IF c \in Members THEN {"A"} ELSE {}]
    /\ joinedAs = [c \in BeatConns |-> IF c \in Members THEN MemberPeer(c) ELSE None]
    /\ lastSend = NoSend
    /\ received = MaxFrames - BeatFrames
    /\ EXPECTED_TOKEN \in {None, "secret"}
    /\ heartbeat = Sleeping(0)
    /\ closed = [c \in BeatConns |-> NoClose]

NextBeat ==
    \/ \E c \in BeatConns : connect(c)
    \/ \E c \in BeatConns : client_drop(c)
    \/ \E c \in BeatConns, r \in RoomIds, p \in PeerIds, t \in Tokens : hub_join(c, r, p, t)
    \/ \E c \in BeatConns, t \in Tokens : hub_join_reject(c, t)
    \/ \E c \in BeatConns : hub_ping(c)
    \/ \E c \in BeatConns : join_broadcast_done(c)
    \/ \E c \in BeatConns : join_ack(c)
    \/ \E c \in BeatConns : join_ack_raise(c)
    \/ \E c \in BeatConns : hub_disconnect(c)
    \/ \E c \in DOMAIN task, x \in BeatConns : broadcast_send(c, x)
    \/ \E c \in DOMAIN task : broadcast_raise(c)
    \/ \E c \in DOMAIN task : disconnect_leave(c)
    \/ \E c \in DOMAIN task : disconnect_skip(c)
    \/ \E c \in DOMAIN task : hub_disconnect_broadcast_done(c)
    \/ \E c \in DOMAIN task : disconnect_raise(c)
    \/ \E c \in DOMAIN task : disconnect_end(c)
    \/ heartbeat_wake
    \/ heartbeat_disconnect
    \/ heartbeat_next
    \/ elapse

SpecBeat == InitBeat /\ [][NextBeat]_vars

\* the steps the event loop and the clock take by themselves: a coroutine that
\* is ready to run is run, the heartbeat loop's sleep ends, time goes on
BeatResumes ==
    \/ \E c \in BeatConns : join_broadcast_done(c)
    \/ \E c \in BeatConns : join_ack(c)
    \/ \E c \in BeatConns : join_ack_raise(c)
    \/ \E c \in BeatConns : hub_disconnect(c)
    \/ \E c \in DOMAIN task, x \in BeatConns : broadcast_send(c, x)
    \/ \E c \in DOMAIN task : broadcast_raise(c)
    \/ \E c \in DOMAIN task : disconnect_leave(c)
    \/ \E c \in DOMAIN task : disconnect_skip(c)
    \/ \E c \in DOMAIN task : hub_disconnect_broadcast_done(c)
    \/ \E c \in DOMAIN task : disconnect_raise(c)
    \/ \E c \in DOMAIN task : disconnect_end(c)
    \/ heartbeat_wake
    \/ heartbeat_disconnect
    \/ heartbeat_next
    \/ elapse

SpecBeatLive == InitBeat /\ [][NextBeat]_vars /\ WF_vars(BeatResumes)

-----------------------------------------------------------------------------
(* apm_peer_service.py: PeerDiscoveryService, the peer map under the          *)
(* announcements of the network and the periodic cleanup                      *)

MaxWall == 120
LongPause == 65

broadcast_interval == 5
heartbeat_timeout == 15
cleanup_interval == 10
REMOVE_AFTER_SECONDS == 60

\* f"peer-{local_ip.replace('.', '-')}" of the other hosts of the network
DiscoveryPeers == {"peer-10-0-0-2", "peer-10-0-0-3"}

\* the status a peer gives of itself (PeerAPIServer.update_status)
AnnouncedStatuses == {"online", "away", "busy"}

\* the clock moves by a broadcast period, or by a pause of the process (or a
\* step of the wall clock) longer than the removal threshold
DiscoveryDeltas == {broadcast_interval, LongPause}

\* stale_peers: the peers this sweep turns offline
stale_peers(tbl, now) ==
    {p \in DOMAIN tbl : /\ now - tbl[p].last_seen > heartbeat_timeout * 2
                        /\ tbl[p].status # "offline"}

\* the status the first loop of the sweep leaves a peer with
swept_status(peer, now) ==
    IF now - peer.last_seen > heartbeat_timeout * 2 THEN "offline"
    ELSE IF now - peer.last_seen > heartbeat_timeout /\ peer.status = "online" THEN "away"
    ELSE peer.status

\* for peer_id in stale_peers: del self.peers[peer_id] when unseen for over 60 s
removed_peers(tbl, now) ==
    {p \in stale_peers(tbl, now) : now - tbl[p].last_seen > REMOVE_AFTER_SECONDS}

\* one pass of the loop body of _cleanup_stale_peers
cleanup_stale_peers(tbl, now) ==
    [p \in DOMAIN tbl \ removed_peers(tbl, now) |->
        [tbl[p] EXCEPT !.status = swept_status(tbl[p], now)]]

\* PeerDiscoveryService.start: self.running = True, the tasks start; the
\* cleanup task goes to its first sleep
discovery_start ==
    /\ cleanup.pc = None
    /\ cleanup' = [pc |-> "sleep", wake |-> wall + cleanup_interval]
    /\ UNCHANGED <<storeVars, hubVars, stop_event, shutdown, peer_rows, metadata, discovered>>

\* _listen_for_peers: a peer_announce of another host
peer_announce(p, status) ==
    /\ cleanup.pc # None
    /\ discovered' = Put(discovered, p, [last_seen |-> wall, status |-> status])
    /\ UNCHANGED <<storeVars, hubVars, stop_event, shutdown, peer_rows, metadata, cleanup>>

\* _listen_for_peers: a heartbeat of a peer in the map
peer_heartbeat(p, status) ==
    /\ cleanup.pc # None
    /\ p \in DOMAIN discovered
    /\ discovered' = [discovered EXCEPT ![p] = [last_seen |-> wall, status |-> status]]
    /\ UNCHANGED <<storeVars, hubVars, stop_event, shutdown, peer_rows, metadata, cleanup>>

\* _cleanup_stale_peers: the sleep is over; current_time = time.time(), the two
\* loops (no await between them), the next sleep
cleanup_sweep ==
    /\ cleanup.pc = "sleep"
    /\ wall >= cleanup.wake
    /\ discovered' = cleanup_stale_peers(discovered, wall)
    /\ cleanup' = [cleanup EXCEPT !.wake = wall + cleanup_interval]
    /\ UNCHANGED <<storeVars, hubVars, stop_event, shutdown, peer_rows, metadata>>

\* time passes while the cleanup task sleeps
discovery_elapse(d) ==
    /\ cleanup.pc = "sleep" => wall < cleanup.wake
    /\ wall + d <= MaxWall
    /\ wall' = wall + d
    /\ UNCHANGED <<sessions, nCreated, ticks, req, hk, sweep, hubVars, appVars>>

NextDiscovery ==
    \/ discovery_start
    \/ \E p \in DiscoveryPeers, status \in AnnouncedStatuses : peer_announce(p, status)
    \/ \E p \in DiscoveryPeers, status \in AnnouncedStatuses : peer_heartbeat(p, status)
    \/ cleanup_sweep
    \/ \E d \in DiscoveryDeltas : discovery_elapse(d)

SpecDiscovery == InitStore /\ [][NextDiscovery]_vars

\* the cleanup task's sleep ends and time advances; a peer, by contrast, need
\* never announce itself again
SpecDiscoveryLive ==
    /\ InitStore
    /\ [][NextDiscovery]_vars
    /\ WF_vars(cleanup_sweep)
    /\ WF_vars(\E d \in DiscoveryDeltas : discovery_elapse(d))

-----------------------------------------------------------------------------
(* Session store: properties *)

Terminal == {"ended", "timeout"}

\* section 4.3 of the design: the transitions of the session state machine
ForwardTransitions ==
    {<<"calling", "ringing">>, <<"calling", "connected">>, <<"ringing", "connected">>,
     <<"calling", "ended">>, <<"ringing", "ended">>, <<"connected", "ended">>,
     <<"calling", "timeout">>, <<"ringing", "timeout">>}

\* C3: every change of a stored session's status is a transition of the
\* forward-only state machine; in particular no session leaves ended or timeout.
C3_ForwardOnly ==
    [][\A s \in DOMAIN sessions \cap DOMAIN sessions' :
          sessions'[s].status # sessions[s].status
              => <<sessions[s].status, sessions'[s].status>> \in ForwardTransitions]_vars

\* the sessions mark_stale must change when "older than" means age >= timeout
MarkHitsAtLeast(pre, timeout, now) ==
    {s \in DOMAIN pre : /\ pre[s].status \in {"calling", "ringing"}
                        /\ now - pre[s].updated_at >= timeout}

\* the sessions mark_stale must change when "older than" means age > timeout
MarkHitsOver(pre, timeout, now) ==
    {s \in DOMAIN pre : /\ pre[s].status \in {"calling", "ringing"}
                        /\ now - pre[s].updated_at > timeout}

MarkedExactly(hit) ==
    /\ DOMAIN sessions = DOMAIN sweep.pre
    /\ \A s \in DOMAIN sweep.pre :
          sessions[s] = IF s \in hit
                        THEN [sweep.pre[s] EXCEPT !.status = "timeout",
                                                  !.updated_at = sweep.now]
                        ELSE sweep.pre[s]
    /\ sweep.ret = Cardinality(hit)

\* C4 as stated: mark_stale(timeout, now) sets status timeout and updated_at now
\* for exactly the calling/ringing sessions with now - updated_at > timeout,
\* leaves the others unchanged and returns the number changed.
C4_MarkStaleStrictlyOlder ==
    sweep.op = "mark_stale"
        => MarkedExactly(MarkHitsOver(sweep.pre, sweep.timeout, sweep.now))

\* C4 amended: the same with now - updated_at >= timeout, so a session whose
\* age equals the timeout exactly is transitioned too.
C4_MarkStaleAtLeast ==
    sweep.op = "mark_stale"
        => MarkedExactly(MarkHitsAtLeast(sweep.pre, sweep.timeout, sweep.now))

\* a calling session aged exactly the timeout was transitioned, another
\* session younger than the timeout was left as it was
C4_Witness ==
    /\ sweep.op = "mark_stale"
    /\ \E s, u \in DOMAIN sweep.pre :
          /\ sweep.pre[s].status = "calling"
          /\ sweep.now - sweep.pre[s].updated_at = sweep.timeout
          /\ sessions[s].status = "timeout"
          /\ sweep.pre[u].status = "ringing"
          /\ sweep.now - sweep.pre[u].updated_at < sweep.timeout
          /\ sessions[u] = sweep.pre[u]
    /\ sweep.ret = 1

PurgeHitsAtLeast(pre, retention, now) ==
    {s \in DOMAIN pre : /\ pre[s].status \in Terminal
                        /\ now - pre[s].updated_at >= retention}

PurgeHitsOver(pre, retention, now) ==
    {s \in DOMAIN pre : /\ pre[s].status \in Terminal
                        /\ now - pre[s].updated_at > retention}

PurgedExactly(hit) ==
    /\ DOMAIN sessions = DOMAIN sweep.pre \ hit
    /\ \A s \in DOMAIN sessions : sessions[s] = sweep.pre[s]
    /\ sweep.ret = Cardinality(hit)

\* C5 as stated: purge(retention, now) deletes exactly the ended/timeout sessions
\* with now - updated_at > retention and returns the number deleted.
C5_PurgeStrictlyOlder ==
    sweep.op = "purge"
        => PurgedExactly(PurgeHitsOver(sweep.pre, sweep.timeout, sweep.now))

\* C5 amended: the same with now - updated_at >= retention, so a terminal
\* session whose age equals the retention exactly is deleted too.
C5_PurgeAtLeast ==
    sweep.op = "purge"
        => PurgedExactly(PurgeHitsAtLeast(sweep.pre, sweep.timeout, sweep.now))

\* an ended session aged exactly the retention was deleted, a timeout session
\* younger than the retention was kept
C5_Witness ==
    /\ sweep.op = "purge"
    /\ \E s, u \in DOMAIN sweep.pre :
          /\ sweep.pre[s].status = "ended"
          /\ sweep.now - sweep.pre[s].updated_at = sweep.timeout
          /\ s \notin DOMAIN sessions
          /\ sweep.pre[u].status = "timeout"
          /\ sweep.now - sweep.pre[u].updated_at < sweep.timeout
          /\ u \in DOMAIN sessions
    /\ sweep.ret = 1

\* C6: a step removes a session only if it is the housekeeper's purge, and the
\* session removed is ended or timeout; a session that create_session inserted
\* is in the store; so a created session that is calling, ringing or connected
\* is still present.
C6_OnlyPurgeRemoves ==
    [][/\ \A s \in DOMAIN sessions :
             s \notin DOMAIN sessions'
                 => /\ hk.pc = "purge" /\ hk'.pc = "sleep"
                    /\ sessions[s].status \in Terminal
       /\ \A t \in Threads :
             (req[t].pc = "insert" /\ req'[t].pc = "idle")
                 => req[t].sid \in DOMAIN sessions']_vars

\* a created session has been purged by the housekeeper's purge step
C6_Witness ==
    /\ hk.pc = "sleep"
    /\ \E s \in 1..nCreated :
           /\ s \notin DOMAIN sessions
           /\ \A t \in Threads : ~(req[t].pc = "insert" /\ req[t].sid = s)

\* C7: every write to a session's updated_at is greater than or equal to the
\* value it replaces.
C7_UpdatedAtMonotonic ==
    [][\A s \in DOMAIN sessions \cap DOMAIN sessions' :
          sessions'[s].updated_at >= sessions[s].updated_at]_vars

\* C18: create_session for a known peer adds exactly one session, under an id
\* no existing session has, with status calling and created_at = updated_at,
\* and leaves every existing session as it was.
C18_CreateAddsOneFreshSession ==
    (sweep.op = "create" /\ sweep.peer \in KnownPeers) =>
        \E sid \in DOMAIN sessions \ DOMAIN sweep.pre :
            /\ DOMAIN sessions = DOMAIN sweep.pre \cup {sid}
            /\ sessions[sid].peer_id = sweep.peer
            /\ sessions[sid].status = "calling"
            /\ sessions[sid].created_at = sessions[sid].updated_at
            /\ \A s \in DOMAIN sweep.pre : sessions[s] = sweep.pre[s]

\* a session was created next to two existing ones, which differ from it
C18_Witness ==
    /\ sweep.op = "create"
    /\ sweep.ret = HTTP_OK
    /\ Cardinality(DOMAIN sweep.pre) = 2
    /\ Cardinality(DOMAIN sessions) = 3
    /\ \E s \in DOMAIN sweep.pre : sweep.pre[s].status # "calling"

\* C19: create_session for a peer id that is not registered answers 404 and
\* adds no session; every stored session names a registered peer.
C19_UnknownPeerNotFound ==
    /\ (sweep.op = "create" /\ sweep.peer \notin KnownPeers) =>
           (sweep.ret = HTTP_NOT_FOUND /\ sessions = sweep.pre)
    /\ \A s \in DOMAIN sessions : sessions[s].peer_id \in KnownPeers

\* the call for an unregistered peer was made on a table that holds sessions
C19_Witness ==
    /\ sweep.op = "create"
    /\ sweep.peer \notin KnownPeers
    /\ sweep.ret = HTTP_NOT_FOUND
    /\ sessions = sweep.pre
    /\ sessions # <<>>

\* C20: mark_stale is idempotent.  A call of mark_stale that repeats the call
\* just before it (same timeout, same now, nothing in between) returns 0 and
\* changes no session; and no call of mark_stale changes a session whose status
\* is already timeout, so a session is moved to timeout by the sweep once only.
C20_MarkStaleIdempotent ==
    sweep.op = "mark_stale" =>
        /\ sweep.rep >= 0 => (sweep.ret = 0 /\ sessions = sweep.pre)
        /\ \A s \in DOMAIN sweep.pre :
              sweep.pre[s].status = "timeout" => sessions[s] = sweep.pre[s]

\* the second of two identical calls, of which the first moved a session to
\* timeout: it returned 0 and the session is as the first call left it
C20_Witness ==
    /\ sweep.op = "mark_stale"
    /\ sweep.rep > 0
    /\ sweep.ret = 0
    /\ \E s \in DOMAIN sessions :
          /\ sessions[s].status = "timeout"
          /\ sessions[s].updated_at = sweep.now
          /\ sweep.now - sessions[s].updated_at >= sweep.timeout

-----------------------------------------------------------------------------
(* Signaling hub: properties *)

Relayed(s) == s.frame.type = "offer"

\* C1: room isolation.  A frame relayed by a connection that has joined only
\* room a is never delivered to a connection that has joined only another room
\* b, whatever roomId the frame carries.
C1_RoomIsolation ==
    (Relayed(lastSend) /\ lastSend.ok) =>
        ~ \E a, b \in RoomIds :
              /\ a # b
              /\ joinedRooms[lastSend.src] = {a}
              /\ joinedRooms[lastSend.to] = {b}

\* C2: identity integrity.  Every relayed frame that is delivered carries as
\* fromPeerId what the sending connection recorded at its latest join (nothing,
\* for a sender that recorded nothing), whatever fromPeerId the sender wrote
\* and whatever joins of other connections are in progress.
C2_IdentityIntegrity ==
    (Relayed(lastSend) /\ lastSend.ok) =>
        lastSend.frame.fromPeerId = joinedAs[lastSend.src]

\* a delivered relay of a joined sender that wrote another peer's id in
\* fromPeerId, while another connection is in the middle of its join
C2_Witness ==
    /\ Relayed(lastSend)
    /\ lastSend.ok
    /\ joinedAs[lastSend.src] # None
    /\ task[lastSend.src].given \notin {None, joinedAs[lastSend.src]}
    /\ \E d \in DOMAIN task : d # lastSend.src /\ task[d].pc \in {"join_bc", "join_ack"}

\* C8: no self-delivery.  No peer_joined, peer_left or relayed frame is sent to
\* the connection whose join, departure or relay it reports.
C8_NoSelfDelivery ==
    lastSend.frame.type \in {"peer_joined", "peer_left", "offer"} =>
        lastSend.to # lastSend.src

\* a relayed frame delivered to another member of a room the sender is in itself
C8_Witness ==
    /\ Relayed(lastSend)
    /\ lastSend.ok
    /\ lastSend.src \in rooms[task[lastSend.src].room]
    /\ lastSend.to \in rooms[task[lastSend.src].room]

\* the step that sends (or fails to send) the joined acknowledgment of c
Acks(c) == task[c].pc = "join_ack" /\ task'[c].pc # "join_ack"

C10_DisconnectPostconditions ==
    /\ \A c \in DOMAIN task :
          (task[c].pc = "done" /\ joinedRooms[c] # {}) =>
              /\ \A r \in DOMAIN rooms : c \notin rooms[r]
              /\ c \notin DOMAIN peers
              /\ c \notin DOMAIN who
              /\ c \notin DOMAIN last_seen
    /\ lastSend.frame.type = "peer_left" =>
          lastSend.frame.peerId = joinedAs[lastSend.src]
    /\ \A c \in DOMAIN task :
          (task[c].pc = "disc" /\ task[c].room # None) =>
              (rooms[task[c].room] \cap task[c].snap) \subseteq task[c].visited

\* C16: a frame that is not a join, from a connection that has recorded no
\* room and peer id, is delivered to no other connection.
C16_UnjoinedRelayDropped ==
    (Relayed(lastSend) /\ lastSend.ok /\ lastSend.to # lastSend.src) =>
        joinedAs[lastSend.src] # None

\* c and d are members of one room
Together(c, d) == \E r \in DOMAIN rooms : {c, d} \subseteq rooms[r]

\* d is delivered the peer_joined frame of c, with the peer id c joined as
Told(c, d) ==
    /\ lastSend.ok
    /\ lastSend.to = d
    /\ lastSend.src = c
    /\ lastSend.frame = PeerJoined(joinedAs[c])

\* C14: when two connections have joined the same room, in either order or
\* interleaved, each of them is eventually delivered the peer_joined frame of
\* the other.
C14_BothSeePeerJoined ==
    \A c, d \in Conns : c # d => (Together(c, d) ~> Told(c, d))

\* the step in which the broadcast of c ends, normally or with an exception
BroadcastEnds(c) == task[c].pc \in BcPcs /\ task'[c].pc \notin BcPcs

\* C13: a broadcast during whose sends connections leave or join the room
\* still ends normally, and has by then sent the frame to every other member
\* that was in the room when it started and still is.
C13_IterationSafe ==
    [][\A c \in DOMAIN task :
          BroadcastEnds(c) =>
              /\ task'[c].pc # "crashed"
              /\ ((rooms[task[c].room] \cap task[c].snap) \ {task[c].excl})
                     \subseteq task[c].visited]_vars

\* C17: best-effort fan-out.  A broadcast in which a send has failed still ends
\* normally, has by then sent the frame to every other member that remains in
\* the room, and leaves every connection whose send failed out of the room and
\* without a recorded peer association.
C17_BestEffortFanOut ==
    [][\A c \in DOMAIN task :
          (BroadcastEnds(c) /\ task[c].dead # {}) =>
              /\ task'[c].pc # "crashed"
              /\ ((rooms[task[c].room] \cap task[c].snap) \ {task[c].excl})
                     \subseteq task[c].visited
              /\ \A x \in task[c].dead :
                    /\ x \notin rooms'[task[c].room]
                    /\ x \notin DOMAIN peers'
                    /\ x \notin DOMAIN who']_vars

\* c is a member of some room
Member(c) == \E r \in DOMAIN rooms : c \in rooms[r]

\* C12: a joined connection that has sent no frame for longer than the stale
\* threshold is evicted within one sweep interval: no connection stays a member
\* of a room, its transport open, for longer than the stale threshold plus one
\* sweep interval after its last frame.
C12_StaleEvictedInTime ==
    \A c \in DOMAIN link :
        (Member(c) /\ link[c] = "open" /\ c \in DOMAIN last_seen)
            => mono - last_seen[c] <= STALE_TIMEOUT_SEC + HEARTBEAT_INTERVAL_SEC

\* the step in which the handler of c takes a join frame that carries `token`
JoinFrame(c, token) ==
    /\ task[c].pc = "recv"
    /\ task'[c].pc \in {"join_bc", "returned"}
    /\ task'[c].given = token

\* the join frame is turned away: the connection is closed for authentication
\* failure and the hub is as it was
TurnedAway(c) ==
    /\ task'[c].pc = "returned"
    /\ closed'[c].code = POLICY_VIOLATION
    /\ link'[c] = "closed"
    /\ rooms' = rooms
    /\ roomKeys' = roomKeys
    /\ peers' = peers
    /\ lastSend' = NoSend

\* the join goes ahead: membership and association are recorded and the
\* broadcast of peer_joined starts
Proceeds(c) ==
    /\ task'[c].pc = "join_bc"
    /\ task'[c].frame.type = "peer_joined"
    /\ c \in rooms'[task'[c].room]
    /\ peers'[c] = task'[c].peer
    /\ closed'[c] = closed[c]

\* C15: with a shared secret configured, a join frame whose token is missing
\* or is not the secret closes the connection with the authentication-failure
\* code, and that join adds the connection to no room, records no association
\* and leads to no peer_joined and no joined frame; with the right token, or
\* with no secret configured, the join proceeds.
C15_TokenGate ==
    /\ [][\A c \in DOMAIN link, token \in Tokens : JoinFrame(c, token) =>
             IF EXPECTED_TOKEN # None /\ token # EXPECTED_TOKEN
             THEN TurnedAway(c) ELSE Proceeds(c)]_vars
    /\ [](\A c \in DOMAIN link : task[c].pc = "returned" =>
             ~(lastSend.src = c /\ lastSend.frame.type \in {"peer_joined", "joined"}))

C15_Witness ==
    \E c \in DOMAIN link :
        /\ EXPECTED_TOKEN = "secret"
        /\ task[c].pc = "returned"
        /\ task[c].given \in {None, "wrong"}
        /\ closed[c] = Close(POLICY_VIOLATION,
                             IF task[c].given = None THEN "missing token" ELSE "invalid token")
        /\ ~Member(c)

\* ws has no entry left in the hub
Removed(ws) == ~Member(ws) /\ ws \notin DOMAIN peers /\ ws \notin DOMAIN last_seen

\* the coroutine c is in a disconnect call that found its connection already
\* removed: the call has left no room so far and the connection has no entry
RemovedBefore(c) ==
    /\ running = c
    /\ task[c].pc = "disc"
    /\ task[c].room = None
    /\ Removed(task[c].ws)

\* C11: disconnect on a connection that has already been removed is a no-op:
\* every step of the call leaves rooms, peers and last_seen as they are, sends
\* no frame, and the call ends without an exception.
C11_DisconnectIdempotent ==
    [][\A c \in DOMAIN task :
          RemovedBefore(c) =>
              /\ task'[c].pc \in {"disc", "done"}
              /\ roomKeys' = roomKeys
              /\ rooms' = rooms
              /\ peers' = peers
              /\ last_seen' = last_seen
              /\ lastSend' = NoSend]_vars

\* the handler of a connection that the heartbeat loop has closed and run
\* through disconnect enters disconnect for it again
C11_Witness ==
    \E c \in DOMAIN link :
        /\ RemovedBefore(c)
        /\ task[c].ws = c
        /\ task[c].di > Len(roomKeys)
        /\ joinedRooms[c] # {}
        /\ closed[c].code = GOING_AWAY
        /\ task[HeartbeatTask].pc \in {"idle", "done"}
        /\ peers # <<>>

\* the rooms c is a member of
RoomsOf(c) == {r \in DOMAIN rooms : c \in rooms[r]}

\* C28: in every reachable state a connection is a member of at most one room
\* and has at most one (room_id, peer_id) association, also after it has sent
\* join frames that name different rooms.
C28_AtMostOneRoom ==
    \A c \in DOMAIN link :
        /\ Cardinality(RoomsOf(c)) <= 1
        /\ c \in DOMAIN who => RoomsOf(c) \subseteq {who[c][1]}

\* C29: once a disconnect or a dead-connection removal that took the last
\* member out of a room has completed, the room map has no entry for that
\* room: while no coroutine is inside a broadcast or a disconnect, every room
\* entry has a member.
C29_EmptyRoomsSwept ==
    (\A c \in DOMAIN task : task[c].pc \in {"new", "recv", "idle", "done", "returned", "crashed"})
        => \A r \in DOMAIN rooms : rooms[r] # {}

\* the handler of c takes a ping frame
PingTaken(c) == hub_ping(c) \/ legacy_ping_error(c) \/ legacy_ping(c)

\* C30: a ping frame refreshes the last_seen of its sender and is answered
\* with a pong sent to the sender only, whether or not the sender has joined a
\* room; no ping frame is ever sent on to a connection.
C30_PingAnsweredNotRelayed ==
    /\ [][\A c \in DOMAIN link : PingTaken(c) =>
             /\ c \in DOMAIN last_seen'
             /\ last_seen'[c] = mono
             /\ lastSend' = Send(c, Pong, c)
             /\ task'[c] = task[c]]_vars
    /\ [](lastSend.frame.type # "ping")

\* C23: get_session, accept_session and end_session called with an id that is
\* not in the store answer not-found, create no session and leave every stored
\* session as it was.
C23_UnknownIdNotFound ==
    (sweep.op \in {"get", "accept", "end"} /\ sweep.sid \notin DOMAIN sweep.pre)
        => /\ sweep.ret = HTTP_NOT_FOUND
           /\ sessions = sweep.pre
           /\ nCreated = MaxRows

\* an accept for an id that a table with other sessions does not hold
C23_Witness ==
    /\ sweep.op = "accept"
    /\ sweep.pre # <<>>
    /\ sweep.sid \notin DOMAIN sweep.pre
    /\ sweep.ret = HTTP_NOT_FOUND

\* the write of mark_stale_sessions to the row of sid: a calling or ringing
\* session becomes timeout at the housekeeper's time
MarkWrite(sid) ==
    /\ hk.pc = "mark"
    /\ sessions[sid].status \in {"calling", "ringing"}
    /\ sessions'[sid] = [sessions[sid] EXCEPT !.status = "timeout", !.updated_at = hk.now]

\* the write of one request's update_session_status to the row of sid
TransitionWrite(sid) ==
    \E t \in Threads :
        /\ req[t].pc = "update"
        /\ req[t].sid = sid
        /\ sessions'[sid] = [sessions[sid] EXCEPT !.status = NewStatus(req[t].op),
                                                  !.updated_at = req[t].now]

\* C24: under every interleaving of the housekeeper with accept and end,
\* mark_stale sets to timeout only a session that is calling or ringing at the
\* instant of its write (never one that is connected or ended), and a row
\* that changes takes both its status and its updated_at from one write.
C24_AtomicWrites ==
    [][\A sid \in DOMAIN sessions \cap DOMAIN sessions' :
          sessions'[sid] # sessions[sid] => MarkWrite(sid) \/ TransitionWrite(sid)]_vars

\* mark_stale has run past a session that an accept made connected after the
\* housekeeper read its clock: the session is old enough to time out, and is
\* still connected
C24_Witness ==
    /\ hk.pc = "purge"
    /\ \E sid \in DOMAIN sessions :
          /\ sessions[sid].status = "connected"
          /\ sessions[sid].updated_at <= hk.now - SESSION_TIMEOUT_SECONDS

\* the housekeeper's call of mark_stale_sessions, and of purge_sessions
MarkStep == hk.pc = "mark" /\ hk'.pc = "purge"
PurgeStep == hk.pc = "purge" /\ hk'.pc = "sleep"

\* a request's update_session_status of an end for sid
EndWrite(sid) ==
    \E t \in Threads : req[t].pc = "update" /\ req[t].op = "end" /\ req[t].sid = sid
                           /\ req'[t].pc = "idle"

\* mark_stale leaves an accepted session (connected, or ended after that) as it is
C21_MarkSkipsAccepted ==
    [][\A sid \in DOMAIN sessions :
          (MarkStep /\ sessions[sid].status \in {"connected", "ended"})
              => sid \in DOMAIN sessions' /\ sessions'[sid] = sessions[sid]]_vars

\* the write of an end leaves the session ended
C21_EndGivesEnded ==
    [][\A sid \in DOMAIN sessions :
          EndWrite(sid) => sid \in DOMAIN sessions' /\ sessions'[sid].status = "ended"]_vars

\* an ended session stays as its end left it until it is purged
C21_EndedStays ==
    [][\A sid \in DOMAIN sessions :
          sessions[sid].status = "ended"
              => sid \notin DOMAIN sessions' \/ sessions'[sid] = sessions[sid]]_vars

\* a purge whose time is past the retention window of an ended session removes
\* it: get answers not-found
C21_PurgeRemovesEnded ==
    [][\A sid \in DOMAIN sessions :
          (/\ PurgeStep
           /\ sessions[sid].status = "ended"
           /\ hk.now - sessions[sid].updated_at > SESSION_PURGE_AFTER_SECONDS)
              => get_session(sessions', sid) = NoRow]_vars

\* C21: once a session is accepted no run of mark_stale changes its status or
\* updated_at; after end its status is ended, and stays so until, once the
\* retention window has passed, a purge removes it and get answers not-found.
C21_AcceptSuppressesTimeout ==
    /\ C21_MarkSkipsAccepted
    /\ C21_EndGivesEnded
    /\ C21_EndedStays
    /\ C21_PurgeRemovesEnded

\* C22: a session with status timeout keeps that status and stays in the
\* store (get returns it) until a purge whose time is at least the retention
\* window after the timeout transition; in particular the purge of the tick
\* that timed it out leaves it.
C22_TimeoutStaysReadable ==
    [][\A sid \in DOMAIN sessions :
          sessions[sid].status = "timeout"
              => \/ /\ sid \in DOMAIN sessions'
                    /\ sessions'[sid].status = "timeout"
                 \/ /\ sid \notin DOMAIN sessions'
                    /\ PurgeStep
                    /\ hk.now - sessions[sid].updated_at >= SESSION_PURGE_AFTER_SECONDS]_vars

\* C26: a sweep that raises does not end the housekeeping loop: the task
\* never ends by an exception.
C26_LoopSurvivesFailure == hk.pc # "crashed"

\* the housekeeping task has ended
Ended == hk.pc \in {"done", "crashed"}

\* C27: once the stop event is set the housekeeper is not inside a sweep and
\* starts no further sweep, the housekeeping task ends, and the shutdown
\* handler's await of the task completes.
C27_ShutdownStopsHousekeeper ==
    /\ [](stop_event => hk.pc \notin {"mark", "purge"})
    /\ [][stop_event => hk'.pc \notin {"mark", "purge"}]_vars
    /\ (stop_event ~> Ended)
    /\ ((shutdown = "await") ~> (shutdown \in {"done", "raised"}))

\* the shutdown is over and the housekeeper, which had timed a session out
\* before, has returned
C27_Witness ==
    /\ shutdown = "done"
    /\ hk.pc = "done"
    /\ \E sid \in DOMAIN sessions : sessions[sid].status = "timeout"

\* a local peer is recorded: the metadata names a peer the table holds
Recorded(tbl, meta) ==
    /\ get_metadata(meta, "local_peer_id") # None
    /\ get_peer_row(tbl, get_metadata(meta, "local_peer_id")) # None

\* the peer records created as the local peer (no peer record is ever deleted)
LocalRecords(tbl) == DOMAIN tbl \cap {LocalId(u) : u \in Uuids}

\* C25: once a local peer is recorded, ensure_local_peer returns that peer's
\* id and leaves the peers and the metadata as they were; the store never
\* holds two records created as the local peer, and holds exactly the
\* recorded one after the first call.
C25_EnsureLocalIdempotent ==
    /\ (sweep.op = "ensure_local_peer" /\ Recorded(sweep.pre, sweep.meta))
           => /\ sweep.ret = get_metadata(sweep.meta, "local_peer_id")
              /\ peer_rows = sweep.pre
              /\ metadata = sweep.meta
    /\ Cardinality(LocalRecords(peer_rows)) <= 1
    /\ sweep.op # None
           => LocalRecords(peer_rows) = {get_metadata(metadata, "local_peer_id")}

\* ensure_local_peer called on a store that holds the local peer, set to
\* away, and starter peers
C25_Witness ==
    /\ sweep.op = "ensure_local_peer"
    /\ Recorded(sweep.pre, sweep.meta)
    /\ count_peers(sweep.pre) > 1
    /\ get_peer_row(sweep.pre, sweep.ret) = "away"

\* the association map of the endpoint that serves: peers (ws_signaling.py) or
\* who (signaling.py)
Associated == IF impl = "legacy" THEN DOMAIN who ELSE DOMAIN peers

\* C35: every connection that is a member of a room has a recorded peer id in
\* the association map.
C35_MembersAssociated ==
    \A r \in DOMAIN rooms : rooms[r] \subseteq Associated

\* C36: every connection that is a member of a room of the hub has a
\* last_seen entry.
C36_MembersSeen ==
    impl = "hub" => \A r \in DOMAIN rooms : rooms[r] \subseteq DOMAIN last_seen

\* the status of every session of a table
StatusOf(tbl) == [s \in DOMAIN tbl |-> tbl[s].status]

\* C32: mark_stale at t1 and then at t2 >= t1 leaves every session with the
\* status that mark_stale at t2 alone gives it, and purge at t1 and then at
\* t2 >= t1 leaves the sessions that purge at t2 alone leaves.
C32_SweepsTolerateDelay ==
    /\ (sweep.op = "mark_stale" /\ sweep.t1 >= 0)
           => StatusOf(sessions)
                  = StatusOf(mark_stale_sessions(sweep.base, sweep.timeout, sweep.now))
    /\ (sweep.op = "purge" /\ sweep.t1 >= 0)
           => sessions = purge_sessions(sweep.base, sweep.timeout, sweep.now)

\* two sweeps at different times of which the first timed out one session
\* and the second another
C32_Witness ==
    /\ sweep.op = "mark_stale"
    /\ sweep.t1 >= 0
    /\ sweep.t1 < sweep.now
    /\ \E s \in DOMAIN sweep.base :
          sweep.base[s].status = "calling" /\ sweep.pre[s].status = "timeout"
    /\ \E s \in DOMAIN sweep.pre :
          sweep.pre[s].status = "ringing" /\ sessions[s].status = "timeout"

\* the write of the accept or end request of thread t, after which the handler
\* returns the session with the new status and the time it read
TransitionReturns(t) == req[t].pc = "update" /\ req'[t].pc = "idle"

\* C38: when accept_session or end_session returns a session, the store holds
\* that session with the returned status and updated_at right after the
\* request's write.
C38_ReturnedSessionStored ==
    [][\A t \in Threads :
          TransitionReturns(t)
              => /\ req[t].sid \in DOMAIN sessions'
                 /\ sessions'[req[t].sid].status = NewStatus(req[t].op)
                 /\ sessions'[req[t].sid].updated_at = req[t].now]_vars

\* the sweep of the heartbeat closes the next connection of its list
SweepCloses == heartbeat'.pc = "disconnect" /\ heartbeat'.stale # heartbeat.stale

\* C34: the stale sweep closes a connection only if, at that moment, now -
\* last_seen exceeds the stale threshold: a connection with an inbound frame
\* within the threshold is not closed by the sweep.
C34_SweepClosesOnlyStale ==
    [][SweepCloses =>
          LET ws == Head(heartbeat'.stale) IN
          ws \in DOMAIN last_seen => mono - last_seen[ws] > STALE_TIMEOUT_SEC]_vars

\* a step of a peer_left broadcast that sends to member x
LeftSend(k, x) == task[k].pc = "disc_bc" /\ broadcast_send(k, x)

\* a step of disconnect that starts the peer_left broadcast of a room
LeftStart(k) == task[k].pc = "disc" /\ task'[k].pc = "disc_bc"

\* every peer_left broadcast starts with the removal of the connection from the
\* room, and no other disconnect is broadcasting the same departure
C37_OneBroadcastPerDeparture ==
    [][\A k \in DOMAIN task : LeftStart(k) =>
          /\ task'[k].ws \in rooms[task'[k].room]
          /\ task'[k].ws \notin rooms'[task'[k].room]
          /\ \A j \in DOMAIN task \ {k} :
                ~(/\ task[j].pc = "disc_bc"
                  /\ task[j].ws = task'[k].ws
                  /\ task[j].room = task'[k].room)]_vars

InRoom(c, r) == r \in DOMAIN rooms /\ c \in rooms[r]

\* x has joined and is in no room although its handler has not yet reached its
\* disconnect: the dead-socket cleanup of a broadcast has removed it
DeadRemoved(x) ==
    /\ joinedAs[x] # None
    /\ link[x] # "open"
    /\ task[x].pc = "recv"
    /\ \A r \in DOMAIN rooms : x \notin rooms[r]

\* m is sent the peer_left frame of x, with the peer id x joined as
LeftSent(x, m) ==
    /\ lastSend.to = m
    /\ lastSend.src = x
    /\ lastSend.frame = PeerLeft(joinedAs[x])

\* C33: when a broadcast has marked a connection dead and removed it, every
\* member that remains in a room it had joined is eventually sent a peer_left
\* frame with the dead connection's peer id.
C33_DeadTriggersPeerLeft ==
    \A x, m \in Conns : \A r \in RoomIds :
        (x # m /\ DeadRemoved(x) /\ r \in joinedRooms[x] /\ InRoom(m, r) /\ link[m] = "open")
            ~> (LeftSent(x, m) \/ ~InRoom(m, r))

\* the receive handler of c has ended: after its disconnect, by the return that
\* follows a token rejection, or by an exception other than WebSocketDisconnect
Terminated(c) == task[c].pc \in {"done", "returned", "crashed"}

\* c is in no room and has no entry in peers and last_seen
Absent(c) ==
    /\ \A r \in DOMAIN rooms : c \notin rooms[r]
    /\ c \notin DOMAIN peers
    /\ c \notin DOMAIN last_seen

\* the sweep that finds c stale lies within the clock's range
SweepInRange(c) ==
    c \in DOMAIN last_seen =>
        last_seen[c] + STALE_TIMEOUT_SEC + HEARTBEAT_INTERVAL_SEC <= MaxMono

\* C39: every connection whose receive handler has terminated is eventually in
\* no room and has no entry in peers and last_seen.
C39_TerminatedEvicted ==
    \A c \in BeatConns : (Terminated(c) /\ SweepInRange(c)) ~> Absent(c)

\* while the heartbeat task is alive and its next sweep lies within the clock's
\* range, a terminated handler's connection is evicted
C39_EvictedWhileHeartbeatAlive ==
    \A c \in BeatConns :
        (Terminated(c) /\ SweepInRange(c) /\ heartbeat.wake <= MaxMono)
            ~> (Absent(c) \/ ~HeartbeatAlive)

Waiting(s) == s \in DOMAIN sessions /\ sessions[s].status \in {"calling", "ringing"}
Finished(s) == s \in DOMAIN sessions /\ sessions[s].status \in {"ended", "timeout"}

\* the session was last written at least `seconds` ago
Aged(s, seconds) == wall - sessions[s].updated_at >= seconds

\* a session waiting in calling or ringing, with the timeout past or time still
\* to advance, gets status timeout unless it is accepted or ended
C31_WaitingTimesOut ==
    \A s \in SessionIds :
        (Waiting(s) /\ (Aged(s, SESSION_TIMEOUT_SECONDS) \/ ticks < MaxTicks))
            ~> (s \in DOMAIN sessions => sessions[s].status \in {"timeout", "connected", "ended"})

\* C31: with the housekeeper ticking and time advancing, a session that stays
\* in calling or ringing eventually has status timeout, and a session in ended
\* or timeout, once the retention window has passed, is eventually removed.
C31_SessionLifecycleLive ==
    \A s \in SessionIds :
        /\ (Waiting(s) /\ (Aged(s, SESSION_TIMEOUT_SECONDS) \/ ticks < MaxTicks))
               ~> (s \in DOMAIN sessions => sessions[s].status \in {"timeout", "connected", "ended"})
        /\ (Finished(s) /\ Aged(s, SESSION_PURGE_AFTER_SECONDS)) ~> (s \notin DOMAIN sessions)

\* the time since the peer was last seen
Unseen(p) == wall - discovered[p].last_seen

\* a sweep leaves every peer unseen for over twice heartbeat_timeout offline,
\* and turns an online peer unseen for over heartbeat_timeout away
C40_SweepAges ==
    [][cleanup_sweep =>
          \A p \in DOMAIN discovered' :
              /\ Unseen(p) > heartbeat_timeout * 2 => discovered'[p].status = "offline"
              /\ (/\ Unseen(p) > heartbeat_timeout
                  /\ Unseen(p) <= heartbeat_timeout * 2
                  /\ discovered[p].status = "online") => discovered'[p].status = "away"]_vars

\* no step removes a peer whose status is already offline
C40_OfflineNeverRemoved ==
    [][\A p \in DOMAIN discovered :
          discovered[p].status = "offline" => p \in DOMAIN discovered']_vars

\* C40: a discovered peer that stops announcing is aged online -> away after
\* heartbeat_timeout and -> offline after twice heartbeat_timeout by the sweep,
\* and once it is offline and unseen for more than 60 seconds, with a sweep
\* still to come, it is eventually removed from the peer map.
C40_StalePeerRemoved ==
    \A p \in DiscoveryPeers :
        (/\ p \in DOMAIN discovered
         /\ discovered[p].status = "offline"
         /\ Unseen(p) > REMOVE_AFTER_SECONDS
         /\ cleanup.wake <= MaxWall)
            ~> (p \in DOMAIN discovered => Unseen(p) <= REMOVE_AFTER_SECONDS)

====
